---- MODULE Spec2Model ----
(***************************************************************************)
(* Verification model of the temperature-monitor repository.               *)
(*                                                                         *)
(*   Part 1  LocationManager registry (services/location_manager.py),      *)
(*           one action per public method, executed atomically  (Spec)     *)
(*   Part 2  PDFTemperatureParser._extract_temperatures                    *)
(*           (services/pdf_parser.py), one action per text line (SpecTemp) *)
(*   Part 3  two threads running registry mutators statement by statement  *)
(*           (SpecConc)                                                    *)
(*   Part 4  PDFTemperatureParser._extract_locations, one action per text  *)
(*           line (SpecLoc)                                                *)
(*   Part 5  PDFTemperatureParser.parse_pdf_data: text extraction, both    *)
(*           scans and the daily summary, run twice on the same bytes      *)
(*           (SpecParse)                                                   *)
(*   Part 6  get_potential_matches over larger registries (SpecMatch)      *)
(*   Part 7  the location type classifiers (SpecClassify)                  *)
(*   Part 8  deduplicate_locations and merge_location_info (SpecDedup)     *)
(*   Part 9  saving and loading the registry (SpecStore)                   *)
(*   Part 10 TemperatureScheduler (services/temperature_scheduler.py),     *)
(*           the calls and the loop threads interleaved (SpecSched)        *)
(***************************************************************************)
EXTENDS Integers, Sequences, FiniteSets, TLC

VARIABLES
    discovered_locations,  \* LocationManager.discovered_locations: insertion-ordered dict
    now,                   \* the wall clock read by datetime.now()
    call,                  \* the last method call and its arguments
    ret                    \* what that call returned

regVars == <<discovered_locations, now, call, ret>>

VARIABLES
    report,                \* what the logger recorded: the blocks of the PDF report
    lines,                 \* text_content.split('\n'), each line a sequence of tokens
    line_num,              \* position of the scan in lines (1-based)
    current_location,      \* _extract_temperatures: current_location (None or <<name>>)
    in_recordings_section, \* _extract_temperatures: in_recordings_section
    location_temperatures, \* _extract_temperatures: insertion-ordered dict name -> mins, maxs
    temperatures,          \* _extract_temperatures: the list returned
    phase                  \* "idle", "scan" (in the line loop) or "done" (returned);
                           \* the other positions of parse_pdf_data are listed in Part 5

tempVars == <<report, lines, line_num, current_location, in_recordings_section,
              location_temperatures, temperatures, phase>>

VARIABLES
    objects,               \* the LocationInfo objects ever created, by reference
    table,                 \* discovered_locations as key -> reference, insertion-ordered
    threads,               \* per thread: its call, its position in it, its local variables
    before,                \* the registry when the two calls began
    raised,                \* the threads whose call ended in a KeyError
    rounds                 \* pairs of concurrent calls run so far

concVars == <<objects, table, threads, before, raised, rounds>>

VARIABLES
    backend,               \* how PyPDF2 and pdfplumber fare on the bytes of the report
    backend_calls,         \* the text backends invoked so far, in order
    text_content,          \* _extract_text_from_pdf: text_content, as its '\n'-separated lines
    current_location_info, \* _extract_locations: current_location_info (None or <<dict>>)
    locations_found,       \* _extract_locations: locations_found
    exc,                   \* the exception propagating inside parse_pdf_data (None or <<text>>)
    result,                \* what parse_pdf_data returned (None or <<dict>>)
    first_result,          \* what the previous run on the same bytes returned
    run                    \* 1 in the first run of parse_pdf_data on the bytes, 2 in the second

parseVars == <<backend, backend_calls, text_content, current_location_info, locations_found,
               exc, result, first_result, run>>

VARIABLES
    saved                  \* what the config manager holds: None or <<the mapping saved last>>

storeVars == <<saved>>

VARIABLES
    is_running,            \* TemperatureScheduler.is_running
    scheduler_thread,      \* TemperatureScheduler.scheduler_thread: 0 for None, or a thread id
    scheduler_config,      \* config_manager.config['scheduler'] over the defaults
    jobs,                  \* the jobs of the `schedule` module, each due or not
    loops,                 \* per thread id: where the thread is in _scheduler_loop
    announced              \* the threads that ran _run_daily_announcement, in order

schedVars == <<is_running, scheduler_thread, scheduler_config, jobs, loops, announced>>

vars == <<regVars, tempVars, concVars, parseVars, storeVars, schedVars>>

----------------------------------------------------------------------------
(* Bounds of the registry model *)

MaxClock == 1
MaxCount == 2

(* Python None for an Optional[float] is the empty sequence, a value v is <<v>> *)
None == << >>

(* location names a report can carry: a name and the same name with a
   vendor-appended suffix *)
Names == {"Fridge A", "Fridge A1"}

Confidences == {"high", "medium", "low"}

(* location_info dicts handed to register_discovered_location, as the
   ingestion path builds them: type 'custom', thresholds not extracted *)
LocationInfos ==
    { [name |-> n, confidence |-> c, type |-> "custom", min_temp |-> None, max_temp |-> None] :
        n \in Names, c \in Confidences }

(* config dicts handed to mark_location_configured: the empty dict, or one
   overriding type and both thresholds.  has = the keys the dict holds *)
Configs ==
    { [has |-> {}, type |-> "", min_temp |-> None, max_temp |-> None],
      [has |-> {"type", "min_temp", "max_temp"}, type |-> "fridge",
       min_temp |-> <<2>>, max_temp |-> <<8>>] }

----------------------------------------------------------------------------
(* Dict helpers: the dict is a sequence of entries in insertion order, each
   entry carrying its key *)

Keys(d) == { d[i].key : i \in 1..Len(d) }

Has(d, k) == k \in Keys(d)

IndexOf(d, k) == CHOOSE i \in 1..Len(d) : d[i].key = k

Get(d, k) == d[IndexOf(d, k)]

(* del d[k] *)
Del(d, k) == SelectSeq(d, LAMBDA e : e.key # k)

(* mutation of the object stored under k (position in the dict kept) *)
Put(d, k, e) == [i \in 1..Len(d) |-> IF d[i].key = k THEN e ELSE d[i]]

(* confidence_priority.get(c, 0) *)
confidence_priority(c) ==
    CASE c = "high" -> 3
      [] c = "medium" -> 2
      [] c = "low" -> 1
      [] OTHER -> 0

(* mutant of MaxTs: the source's timestamp is taken as it is *)
MaxTs_source(a, b) == a

(* max() of two isoformat timestamps: string order is time order *)
MaxTs(a, b) == IF a >= b THEN a ELSE b

(* the values a later datetime.now() can return *)
ClockFrom(t) == t..MaxClock

----------------------------------------------------------------------------
(* Read-only queries *)

(* the dict get_unconfigured_locations builds for one entry *)
UnconfiguredDict(e) ==
    [ key |-> e.key, name |-> e.name, confidence |-> e.confidence,
      type |-> e.location_type, min_temp |-> e.min_temp, max_temp |-> e.max_temp,
      source_count |-> e.source_count ]

(* mutant of SortKeyLess: the sort key is the confidence rank alone *)
SortKeyLess_confidence(x, y) ==
    confidence_priority(x.confidence) < confidence_priority(y.confidence)

(* the sort key (confidence rank, source_count), compared as Python tuples *)
SortKeyLess(x, y) ==
    \/ confidence_priority(x.confidence) < confidence_priority(y.confidence)
    \/ /\ confidence_priority(x.confidence) = confidence_priority(y.confidence)
       /\ x.source_count < y.source_count

(* list.sort(key=..., reverse=True): descending and stable, so x goes behind
   every element that is not smaller than it *)
InsertDesc(sorted, x) ==
    LET ahead == { i \in 1..Len(sorted) : ~SortKeyLess(sorted[i], x) }
        n == Cardinality(ahead)
    IN SubSeq(sorted, 1, n) \o <<x>> \o SubSeq(sorted, n + 1, Len(sorted))

RECURSIVE SortDesc(_)
SortDesc(list) ==
    IF list = << >> THEN << >>
    ELSE InsertDesc(SortDesc(SubSeq(list, 1, Len(list) - 1)), list[Len(list)])

(* get_unconfigured_locations() *)
get_unconfigured_locations(d) ==
    LET unconfigured == SelectSeq(d, LAMBDA e : ~e.configured)
    IN SortDesc([i \in 1..Len(unconfigured) |-> UnconfiguredDict(unconfigured[i])])

(* str.lower() on the names of the model *)
Lower(name) ==
    CASE name = "Fridge A" -> "fridge a"
      [] name = "fridge a" -> "fridge a"
      [] name = "Fridge A1" -> "fridge a1"
      [] name = "Fridge A2" -> "fridge a2"
      [] name = "Fridge A3" -> "fridge a3"
      [] OTHER -> name

(* fuzz.WRatio of two lower-cased names, the default scorer of
   process.extract / process.extractOne: 100 for equal strings;
   "fridge a" against "fridge aN" has 8 matching characters of 17,
   ratio 2*8/17 = 94; "fridge aN" against "fridge aM" has 8 of 18, ratio 89;
   the token ratios scaled by 0.95 are lower *)
WRatio(a, b) ==
    IF a = b THEN 100
    ELSE IF a = "fridge a" \/ b = "fridge a" THEN 94
    ELSE 89

(* process.extract(query, choices, limit): the pairs (choice, score), best
   score first, ties in the order of choices, cut to limit *)
RECURSIVE Best(_, _, _)
Best(scored, taken, limit) ==
    IF limit = 0 \/ taken = DOMAIN scored THEN << >>
    ELSE LET rest == DOMAIN scored \ taken
             top == CHOOSE i \in rest :
                        \A j \in rest : \/ scored[j][2] < scored[i][2]
                                        \/ (scored[j][2] = scored[i][2] /\ i <= j)
         IN <<scored[top]>> \o Best(scored, taken \cup {top}, limit - 1)

extract(query, choices, limit) ==
    Best([i \in 1..Len(choices) |-> <<choices[i], WRatio(query, choices[i])>>], {}, limit)

(* the first key of existing_names whose lower() is the matched choice *)
OriginalKey(existing_names, choice) ==
    existing_names[CHOOSE i \in 1..Len(existing_names) :
                       /\ Lower(existing_names[i]) = choice
                       /\ \A j \in 1..(i - 1) : Lower(existing_names[j]) # choice]

MatchLimit == 3
NearExact == 95

(* get_potential_matches(location_name, threshold) *)
get_potential_matches(d, location_name, threshold) ==
    LET existing_names == [i \in 1..Len(d) |-> d[i].key]
        matches == extract(Lower(location_name),
                           [i \in 1..Len(d) |-> Lower(existing_names[i])], MatchLimit)
        inBand == SelectSeq(matches, LAMBDA m : m[2] >= threshold /\ m[2] < NearExact)
    IN [i \in 1..Len(inBand) |->
          LET key == OriginalKey(existing_names, inBand[i][1])
          IN [ key |-> key, name |-> Get(d, key).name, similarity |-> inBand[i][2],
               type |-> Get(d, key).location_type,
               configured |-> Get(d, key).configured ]]

(* find_similar_location(location_name, threshold): the key or None *)
find_similar_location(d, location_name, threshold) ==
    LET existing_names == [i \in 1..Len(d) |-> d[i].key]
        matches == extract(Lower(location_name),
                           [i \in 1..Len(d) |-> Lower(existing_names[i])], 1)
    IN IF matches # << >> /\ matches[1][2] >= threshold
       THEN <<OriginalKey(existing_names, matches[1][1])>>
       ELSE None

----------------------------------------------------------------------------
(* mutant of LocationInfo: a new object starts out configured *)
LocationInfo_configured(name, confidence, configured, location_type, min_temp, max_temp, first_seen, source_count, t1, t2) ==
    [ name |-> name, confidence |-> confidence, configured |-> TRUE,
      location_type |-> location_type, min_temp |-> min_temp, max_temp |-> max_temp,
      first_seen |-> IF first_seen = None THEN t1 ELSE first_seen[1],
      last_seen |-> t2, source_count |-> source_count ]

(* LocationInfo(...) followed by __post_init__: first_seen is kept when
   given, last_seen is always set from the clock *)
LocationInfo(name, confidence, configured, location_type, min_temp, max_temp, first_seen, source_count, t1, t2) ==
    [ name |-> name, confidence |-> confidence, configured |-> configured,
      location_type |-> location_type, min_temp |-> min_temp, max_temp |-> max_temp,
      first_seen |-> IF first_seen = None THEN t1 ELSE first_seen[1],
      last_seen |-> t2, source_count |-> source_count ]

(* a dict item: the LocationInfo object stored under key k *)
Item(k, obj) == [key |-> k] @@ obj

(* mutant of ExistingKey: a near match (similarity >= 90) counts as the
   same location *)
ExistingKey_similar(d, location_name) ==
    find_similar_location(d, location_name, 90)

(* `location_name in self.discovered_locations`: the key of the entry an
   observation of location_name updates, or None *)
ExistingKey(d, location_name) ==
    IF Has(d, location_name) THEN <<location_name>> ELSE None

(* mutant of BetterConfidence: the latest confidence always wins *)
BetterConfidence_latest(old, new) == new

(* "Update confidence if better": the confidence kept when `new` is seen on
   an entry that has `old` *)
BetterConfidence(old, new) ==
    IF confidence_priority(new) > confidence_priority(old) THEN new ELSE old

(* mutant of Reobserved: last_seen is refreshed, the count is not bumped *)
Reobserved_nobump(existing_location, t) ==
    [existing_location EXCEPT !.last_seen = t]

(* the update of an existing entry: last_seen refreshed, source_count += 1 *)
Reobserved(existing_location, t) ==
    [existing_location EXCEPT !.last_seen = t, !.source_count = @ + 1]

(* register_discovered_location(location_info); t1, t2 are the clock reads
   it makes, in order.  Result: the dict afterwards and the returned key *)
register_discovered_location(d, location_info, t1, t2) ==
    LET location_name == location_info.name
        hit == ExistingKey(d, location_name)
    IN IF hit # None
       THEN LET existing_location == Get(d, hit[1])
                updated ==
                    [Reobserved(existing_location, t1) EXCEPT
                       !.confidence = BetterConfidence(existing_location.confidence,
                                                       location_info.confidence)]
            IN [reg |-> Put(d, hit[1], updated), key |-> location_name]
       ELSE LET new_location ==
                    LocationInfo(location_name, location_info.confidence, FALSE,
                                 location_info.type, location_info.min_temp,
                                 location_info.max_temp, None, 1, t1, t2)
            IN [reg |-> Append(d, Item(location_name, new_location)),
                key |-> location_name]

(* "Merge source into target": the target object after the two updates *)
MergedInto(target_location, source_location) ==
    [target_location EXCEPT
       !.source_count = @ + source_location.source_count,
       !.last_seen = MaxTs(source_location.last_seen, @),
       !.confidence = BetterConfidence(@, source_location.confidence)]

(* mutant of RemovedKey: the target is deleted instead of the source *)
RemovedKey_target(source_key, target_key) == target_key

(* the key merge_locations_by_user_choice deletes *)
RemovedKey(source_key, target_key) == source_key

(* merge_locations_by_user_choice(source_key, target_key).  source and
   target are the objects stored under the two keys; when the keys are equal
   they are one object, which is updated and then deleted *)
merge_locations_by_user_choice(d, source_key, target_key) ==
    IF ~Has(d, source_key) \/ ~Has(d, target_key)
    THEN [reg |-> d, ok |-> FALSE]
    ELSE LET merged == MergedInto(Get(d, target_key), Get(d, source_key))
         IN [reg |-> Del(Put(d, target_key, merged), RemovedKey(source_key, target_key)),
             ok |-> TRUE]

(* config.get(field, default) *)
ConfigGet(config, field, default) ==
    IF field \in config.has THEN config[field] ELSE default

(* mutant of mark_location_configured: `return True` also ends the path of
   an absent key *)
mark_location_configured_true(d, location_key, config) ==
    IF Has(d, location_key)
    THEN LET location == Get(d, location_key)
             marked == [location EXCEPT
                          !.configured = TRUE,
                          !.location_type = ConfigGet(config, "type", @),
                          !.min_temp = ConfigGet(config, "min_temp", @),
                          !.max_temp = ConfigGet(config, "max_temp", @)]
         IN [reg |-> Put(d, location_key, marked), ok |-> TRUE]
    ELSE [reg |-> d, ok |-> TRUE]

(* mark_location_configured(location_key, config) *)
mark_location_configured(d, location_key, config) ==
    IF Has(d, location_key)
    THEN LET location == Get(d, location_key)
             marked == [location EXCEPT
                          !.configured = TRUE,
                          !.location_type = ConfigGet(config, "type", @),
                          !.min_temp = ConfigGet(config, "min_temp", @),
                          !.max_temp = ConfigGet(config, "max_temp", @)]
         IN [reg |-> Put(d, location_key, marked), ok |-> TRUE]
    ELSE [reg |-> d, ok |-> FALSE]

DefaultPotentialThreshold == 70
DefaultSimilarThreshold == 95

----------------------------------------------------------------------------
(* Registry actions: one per method call *)

NoRet == [ok |-> FALSE, key |-> "", list |-> << >>]

(* no registry in use *)
RegIdle ==
    /\ discovered_locations = << >>
    /\ now = 0
    /\ call = [op |-> "init"]
    /\ ret = NoRet

(* no parse in progress *)
TempIdle ==
    /\ report = << >>
    /\ lines = << >>
    /\ line_num = 1
    /\ current_location = None
    /\ in_recordings_section = FALSE
    /\ location_temperatures = << >>
    /\ temperatures = << >>
    /\ phase = "idle"

(* no thread inside the registry *)
NoCall == [op |-> "none"]

IdleThread == [pc |-> "idle", call |-> NoCall, src |-> 0, tgt |-> 0, tmp |-> 0]

ConcIdle ==
    /\ objects = << >>
    /\ table = << >>
    /\ threads = [t \in {1, 2} |-> IdleThread]
    /\ before = << >>
    /\ raised = {}
    /\ rounds = 0

(* nothing saved yet *)
StoreIdle == saved = << >>

(* bound of the scheduler model: the loop threads ever started *)
MaxThreads == 3

(* a scheduler as __init__ leaves it, the scheduler disabled in the settings *)
SchedIdle ==
    /\ is_running = FALSE
    /\ scheduler_thread = 0
    /\ scheduler_config = [enabled |-> FALSE]
    /\ jobs = << >>
    /\ loops = [t \in 1..MaxThreads |-> "unborn"]
    /\ announced = << >>

(* no parse_pdf_data call in progress *)
ParseIdle ==
    /\ backend = << >>
    /\ backend_calls = << >>
    /\ text_content = << >>
    /\ current_location_info = << >>
    /\ locations_found = << >>
    /\ exc = << >>
    /\ result = << >>
    /\ first_result = << >>
    /\ run = 1

RegInit == RegIdle /\ TempIdle /\ ConcIdle /\ StoreIdle /\ SchedIdle /\ ParseIdle

(* source_count stays within the model's bound *)
CountFits(d, location_name) ==
    Has(d, location_name) => Get(d, location_name).source_count < MaxCount

Register ==
    \E info \in LocationInfos :
      \E t1 \in ClockFrom(now) : \E t2 \in ClockFrom(t1) :
        /\ CountFits(discovered_locations, info.name)
        /\ LET r == register_discovered_location(discovered_locations, info, t1, t2)
           IN /\ discovered_locations' = r.reg
              /\ ret' = [NoRet EXCEPT !.key = r.key]
        /\ now' = IF Has(discovered_locations, info.name) THEN t1 ELSE t2
        /\ call' = [op |-> "register", info |-> info]
        /\ UNCHANGED <<tempVars, concVars, storeVars, schedVars, parseVars>>

Merge ==
    \E source_key \in Names, target_key \in Names :
        /\ (Has(discovered_locations, source_key) /\ Has(discovered_locations, target_key))
              => Get(discovered_locations, source_key).source_count
                   + Get(discovered_locations, target_key).source_count <= MaxCount
        /\ LET r == merge_locations_by_user_choice(discovered_locations, source_key, target_key)
           IN /\ discovered_locations' = r.reg
              /\ ret' = [NoRet EXCEPT !.ok = r.ok]
        /\ call' = [op |-> "merge", source_key |-> source_key, target_key |-> target_key]
        /\ UNCHANGED <<now, tempVars, concVars, storeVars, schedVars, parseVars>>

MarkConfigured ==
    \E location_key \in Names, config \in Configs :
        /\ LET r == mark_location_configured(discovered_locations, location_key, config)
           IN /\ discovered_locations' = r.reg
              /\ ret' = [NoRet EXCEPT !.ok = r.ok]
        /\ call' = [op |-> "mark", location_key |-> location_key, config |-> config]
        /\ UNCHANGED <<now, tempVars, concVars, storeVars, schedVars, parseVars>>

GetUnconfigured ==
    /\ ret' = [NoRet EXCEPT !.list = get_unconfigured_locations(discovered_locations)]
    /\ call' = [op |-> "unconfigured"]
    /\ UNCHANGED <<discovered_locations, now, tempVars, concVars, storeVars, schedVars, parseVars>>

GetPotentialMatches ==
    \E location_name \in Names :
        /\ ret' = [NoRet EXCEPT !.list =
                     get_potential_matches(discovered_locations, location_name,
                                           DefaultPotentialThreshold)]
        /\ call' = [op |-> "potential", location_name |-> location_name]
        /\ UNCHANGED <<discovered_locations, now, tempVars, concVars, storeVars, schedVars, parseVars>>

FindSimilar ==
    \E location_name \in Names :
        /\ ret' = [NoRet EXCEPT !.list =
                     find_similar_location(discovered_locations, location_name,
                                           DefaultSimilarThreshold)]
        /\ call' = [op |-> "similar", location_name |-> location_name]
        /\ UNCHANGED <<discovered_locations, now, tempVars, concVars, storeVars, schedVars, parseVars>>

RegNext ==
    \/ Register
    \/ Merge
    \/ MarkConfigured
    \/ GetUnconfigured
    \/ GetPotentialMatches
    \/ FindSimilar

Spec == RegInit /\ [][RegNext]_vars

----------------------------------------------------------------------------
(* Vocabulary of the registry claims *)

Reg == discovered_locations

(* the order low < medium < high *)
Rank(c) == IF c = "high" THEN 3 ELSE IF c = "medium" THEN 2 ELSE 1

MaxOf(a, b) == IF a >= b THEN a ELSE b

(* keys present before and after a step *)
Kept == Keys(Reg) \cap Keys(Reg')

(* C1: an observation of a name that is no existing key (compared exactly,
   case-sensitively) adds one entry under that name and leaves every existing
   entry as it was, however similar the name is to an existing key; the fuzzy
   queries get_potential_matches and find_similar_location leave the registry
   as it was. *)
C1_NoConflation ==
    [][ /\ (call'.op = "register" /\ call'.info.name \notin Keys(Reg))
            => /\ Keys(Reg') = Keys(Reg) \cup {call'.info.name}
               /\ Len(Reg') = Len(Reg) + 1
               /\ \A k \in Keys(Reg) : Get(Reg', k) = Get(Reg, k)
               /\ Get(Reg', call'.info.name).name = call'.info.name
               /\ ret'.key = call'.info.name
        /\ (call'.op \in {"potential", "similar"}) => Reg' = Reg
      ]_vars

(* a 94 %-similar name was observed while "Fridge A" existed, and got its own
   entry; "Fridge A" still has its single observation *)
C1_Witness ==
    /\ call.op = "register" /\ call.info.name = "Fridge A1"
    /\ Len(Reg) = 2 /\ Reg[1].key = "Fridge A" /\ Reg[2].key = "Fridge A1"
    /\ Reg[1].source_count = 1 /\ Reg[2].source_count = 1
    /\ find_similar_location(<<Reg[1]>>, "Fridge A1", 90) = <<"Fridge A">>

(* C2: observing confidence c on an existing key leaves the higher of the old
   confidence and c, so the rank never decreases and after a run of
   observations it is the highest one observed; an observation that creates
   the key stores c. *)
C2_ConfidenceMonotone ==
    [][ call'.op = "register" =>
          LET k == call'.info.name
              c == call'.info.confidence
          IN /\ k \in Keys(Reg')
             /\ IF k \in Keys(Reg)
                THEN Rank(Get(Reg', k).confidence)
                       = MaxOf(Rank(Get(Reg, k).confidence), Rank(c))
                ELSE Get(Reg', k).confidence = c
      ]_vars

(* medium was stored, low was observed afterwards, medium stays *)
C2_Witness ==
    /\ call.op = "register" /\ call.info.confidence = "low"
    /\ call.info.name \in Keys(Reg)
    /\ Get(Reg, call.info.name).confidence = "medium"
    /\ Get(Reg, call.info.name).source_count = 2

(* the effect of a successful merge of source s into target t *)
MergePost(s, t) ==
    /\ ret'.ok
    /\ s \notin Keys(Reg')
    /\ \A i \in 1..Len(get_unconfigured_locations(Reg')) :
           get_unconfigured_locations(Reg')[i].key # s
    /\ t \in Keys(Reg')
    /\ Get(Reg', t).source_count = Get(Reg, s).source_count + Get(Reg, t).source_count
    /\ Get(Reg', t).last_seen = MaxOf(Get(Reg, s).last_seen, Get(Reg, t).last_seen)
    /\ Rank(Get(Reg', t).confidence)
         = MaxOf(Rank(Get(Reg, s).confidence), Rank(Get(Reg, t).confidence))

(* C3 as stated: for ANY two present keys, the merge returns true, the source
   is gone, the target is present and holds the summed count, the later
   last_seen and the higher confidence. *)
C3_AnyPresentKeys ==
    [][ (/\ call'.op = "merge"
         /\ call'.source_key \in Keys(Reg)
         /\ call'.target_key \in Keys(Reg))
          => MergePost(call'.source_key, call'.target_key)
      ]_vars

(* C3 amended: the same for any two DISTINCT present keys. *)
C3_DistinctKeys ==
    [][ (/\ call'.op = "merge"
         /\ call'.source_key \in Keys(Reg)
         /\ call'.target_key \in Keys(Reg)
         /\ call'.source_key # call'.target_key)
          => MergePost(call'.source_key, call'.target_key)
      ]_vars

(* "Fridge A1" was merged into "Fridge A", which now carries both counts *)
C3_Witness ==
    /\ call.op = "merge" /\ ret.ok
    /\ call.source_key = "Fridge A1" /\ call.target_key = "Fridge A"
    /\ Keys(Reg) = {"Fridge A"}
    /\ Reg[1].source_count = 2

(* C4: a merge with an absent key and a mark-configured of an absent key
   return false and leave the registry, keys and fields, as it was. *)
C4_AbsentKeyNoEffect ==
    [][ /\ (/\ call'.op = "merge"
            /\ (call'.source_key \notin Keys(Reg) \/ call'.target_key \notin Keys(Reg)))
            => (~ret'.ok /\ Reg' = Reg)
        /\ (call'.op = "mark" /\ call'.location_key \notin Keys(Reg))
            => (~ret'.ok /\ Reg' = Reg)
      ]_vars

(* a mark-configured with overrides was refused for an absent key while
   another entry existed *)
C4_Witness ==
    /\ call.op = "mark" /\ ~ret.ok
    /\ call.location_key \notin Keys(Reg)
    /\ call.config.has # {}
    /\ Reg # << >>

(* C5: no step removes a key, except a successful merge, which removes its
   source key and nothing else. *)
C5_KeysOnlyRemovedByMerge ==
    [][ \/ Keys(Reg) \subseteq Keys(Reg')
        \/ /\ call'.op = "merge" /\ ret'.ok
           /\ Keys(Reg) \ Keys(Reg') = {call'.source_key}
      ]_vars

(* both keys are still there after re-observations and a mark-configured *)
C5_Witness ==
    /\ call.op = "register"
    /\ Keys(Reg) = Names
    /\ \E k \in Keys(Reg) : Get(Reg, k).configured /\ Get(Reg, k).source_count = 2

(* C6: an entry is created unconfigured, and only by an observation; its
   flag goes from false to true only in a mark-configured of its key, and
   never from true to false. *)
C6_ConfiguredSticky ==
    [][ /\ \A k \in Keys(Reg') \ Keys(Reg) :
              call'.op = "register" /\ ~Get(Reg', k).configured
        /\ \A k \in Kept :
              /\ Get(Reg, k).configured => Get(Reg', k).configured
              /\ (~Get(Reg, k).configured /\ Get(Reg', k).configured)
                    => (call'.op = "mark" /\ call'.location_key = k)
      ]_vars

(* a configured entry was observed again and is still configured *)
C6_Witness ==
    /\ call.op = "register"
    /\ call.info.name \in Keys(Reg)
    /\ Get(Reg, call.info.name).configured
    /\ Get(Reg, call.info.name).last_seen = now
    /\ Get(Reg, call.info.name).source_count = 2

(* C7: an observation of a present key adds exactly 1 to its source_count;
   in every step, every key present before and after keeps its first_seen and
   its source_count and last_seen do not decrease. *)
C7_CountsAndTimestamps ==
    [][ /\ (call'.op = "register" /\ call'.info.name \in Keys(Reg))
            => Get(Reg', call'.info.name).source_count
                 = Get(Reg, call'.info.name).source_count + 1
        /\ \A k \in Kept :
              /\ Get(Reg', k).source_count >= Get(Reg, k).source_count
              /\ Get(Reg', k).last_seen >= Get(Reg, k).last_seen
              /\ Get(Reg', k).first_seen = Get(Reg, k).first_seen
      ]_vars

(* a key created at time 0 was observed again at time 1 *)
C7_Witness ==
    /\ call.op = "register"
    /\ call.info.name \in Keys(Reg)
    /\ Get(Reg, call.info.name).source_count = 2
    /\ Get(Reg, call.info.name).first_seen = 0
    /\ Get(Reg, call.info.name).last_seen = 1

(* what the unconfigured list must be for registry d *)
UnconfiguredListOk(d, list) ==
    /\ { list[i].key : i \in 1..Len(list) } = { k \in Keys(d) : ~Get(d, k).configured }
    /\ \A i, j \in 1..Len(list) : i # j => list[i].key # list[j].key
    /\ \A i \in 1..Len(list) :
          /\ list[i].confidence = Get(d, list[i].key).confidence
          /\ list[i].source_count = Get(d, list[i].key).source_count
    /\ \A i, j \in 1..Len(list) : i < j =>
          \/ Rank(list[i].confidence) > Rank(list[j].confidence)
          \/ /\ Rank(list[i].confidence) = Rank(list[j].confidence)
             /\ list[i].source_count >= list[j].source_count

(* C9: in every registry state get_unconfigured_locations lists exactly the
   unconfigured entries, each once, by confidence rank descending and then by
   source_count descending, and the call leaves the registry as it was. *)
C9_UnconfiguredSorted ==
    /\ [](UnconfiguredListOk(Reg, get_unconfigured_locations(Reg)))
    /\ [][ call'.op = "unconfigured"
             => (Reg' = Reg /\ UnconfiguredListOk(Reg, ret'.list)) ]_vars

(* two unconfigured entries of equal confidence were listed in the reverse of
   their insertion order, the more often seen one first *)
C9_Witness ==
    /\ call.op = "unconfigured"
    /\ Len(ret.list) = 2 /\ Len(Reg) = 2
    /\ ret.list[1].key = Reg[2].key
    /\ ret.list[1].confidence = ret.list[2].confidence
    /\ ret.list[1].source_count > ret.list[2].source_count

----------------------------------------------------------------------------
(* Part 2: PDFTemperatureParser._extract_temperatures                      *)
(*                                                                          *)
(* A line of text is a sequence of tokens [k, v]: a maximal run of digits   *)
(* is one token k = "num" with its value v; ".", "-", " " and the unit     *)
(* "°C" are tokens of their own; any other run of text is a token whose k  *)
(* is that text.  Temperatures are counted in tenths of a degree.          *)

Tok(k, v) == [k |-> k, v |-> v]
Num(n) == Tok("num", n)
Dot == Tok(".", 0)
Minus == Tok("-", 0)
Sp == Tok(" ", 0)
DegC == Tok("°C", 0)
Word(w) == Tok(w, 0)

(* the characters of a token, and of a line *)
TokText(t) == IF t.k = "num" THEN ToString(t.v) ELSE t.k

RECURSIVE Text(_)
Text(toks) == IF toks = << >> THEN "" ELSE TokText(Head(toks)) \o Text(Tail(toks))

(* str.strip() *)
RECURSIVE Strip(_)
Strip(toks) ==
    IF toks = << >> THEN << >>
    ELSE IF Head(toks) = Sp THEN Strip(Tail(toks))
    ELSE IF toks[Len(toks)] = Sp THEN Strip(SubSeq(toks, 1, Len(toks) - 1))
    ELSE toks

(* the logger prints a temperature with one decimal, e.g. 4.0°C, -18.2°C *)
Abs(v) == IF v < 0 THEN -v ELSE v

Fmt(v) ==
    (IF v < 0 THEN <<Minus>> ELSE << >>)
        \o <<Num(Abs(v) \div 10), Dot, Num(Abs(v) % 10), DegC>>

(* a row of the recordings table: "2025/08/14 05:59PM 4.0°C 4.8°C" *)
RecordingRow(pair) ==
    <<Word("2025/08/14"), Sp, Word("05:59PM"), Sp>> \o Fmt(pair[1]) \o <<Sp>> \o Fmt(pair[2])

(* the text of one location block and its recordings *)
BlockLines(block) ==
    << <<Word("Location Details")>>,
       <<Word("Name"), Sp, Word(block.name)>>,
       <<Word("Temperature")>>,
       <<Word("Recordings")>> >>
    \o [i \in 1..Len(block.readings) |-> RecordingRow(block.readings[i])]

RECURSIVE Render(_)
Render(blocks) ==
    IF blocks = << >> THEN << >>
    ELSE BlockLines(Head(blocks)) \o Render(Tail(blocks))

(* Inputs: the (min, max) pairs a logger records, in tenths of a degree: two
   fridge readings, a freezer reading, a faulty-sensor reading below the
   plausibility bound and one above it *)
ReadingPairs ==
    { <<39, 48>>, <<40, 50>>, <<-205, -182>>, <<-600, 50>>, <<1200, 50>> }

LocationNames == {"Dispensary", "Vaccine Fridge"}

MaxReadings == 2

BlockCounts == {1, 2}

RECURSIVE SeqsUpTo(_, _)
SeqsUpTo(S, n) ==
    IF n = 0 THEN { << >> }
    ELSE LET shorter == SeqsUpTo(S, n - 1)
         IN shorter \cup { Append(q, x) : q \in { r \in shorter : Len(r) = n - 1 }, x \in S }

Blocks ==
    { [name |-> n, readings |-> r] : n \in LocationNames, r \in SeqsUpTo(ReadingPairs, MaxReadings) }

Reports == UNION { [1..c -> Blocks] : c \in BlockCounts }

----------------------------------------------------------------------------
(* re.findall(r'(\d+\.\d+)°C\s+(\d+\.\d+)°C', line) *)

IsTok(line, i, k) == i <= Len(line) /\ line[i].k = k

(* \s+ from position i: the position after the run of blanks, 0 if none *)
RECURSIVE AfterBlanks(_, _)
AfterBlanks(line, i) ==
    IF IsTok(line, i, " ")
    THEN IF IsTok(line, i + 1, " ") THEN AfterBlanks(line, i + 1) ELSE i + 1
    ELSE 0

(* \d+\.\d+°C at position i *)
DecimalAt(line, i) ==
    /\ IsTok(line, i, "num") /\ IsTok(line, i + 1, ".")
    /\ IsTok(line, i + 2, "num") /\ IsTok(line, i + 3, "°C")

(* the whole pattern at position i: the position after the match, 0 if none *)
MatchEnd(line, i) ==
    IF DecimalAt(line, i) /\ AfterBlanks(line, i + 4) # 0
          /\ DecimalAt(line, AfterBlanks(line, i + 4))
    THEN AfterBlanks(line, i + 4) + 4
    ELSE 0

(* float() of the text "<int>.<frac>", one decimal, in tenths *)
Float(int_tok, frac_tok) == 10 * int_tok.v + frac_tok.v

(* the non-overlapping matches from position i on, left to right *)
RECURSIVE FindAll(_, _)
FindAll(line, i) ==
    IF i > Len(line) THEN << >>
    ELSE IF MatchEnd(line, i) # 0
         THEN LET j == AfterBlanks(line, i + 4)
              IN << <<Float(line[i], line[i + 2]), Float(line[j], line[j + 2])>> >>
                   \o FindAll(line, MatchEnd(line, i))
         ELSE FindAll(line, i + 1)

(* "Skip unrealistic temperatures": the bounds, in tenths of a degree *)
MinPlausible == -500
MaxPlausible == 1000

Unrealistic(min_temp, max_temp) ==
    \/ min_temp < MinPlausible \/ min_temp > MaxPlausible
    \/ max_temp < MinPlausible \/ max_temp > MaxPlausible

(* the pairs of a line that are appended to the running lists *)
Accepted(matches) == SelectSeq(matches, LAMBDA m : ~Unrealistic(m[1], m[2]))

----------------------------------------------------------------------------
(* The line loop of _extract_temperatures, one action per line *)

Line == lines[line_num]

StartsWith(line, word) == line # << >> /\ line[1].k = word

FieldLabels == {"Description", "Device", "Device Model"}

NotAName == {"Description", "Device", "Device Model", "Log Interval",
             "View Location", "Temperature"}

(* the name on the "Name" line itself: line[4:].strip(), if acceptable *)
SameLineName(line) ==
    LET name_part == Text(Strip(Tail(line)))
    IN IF Len(line) > 1 /\ name_part # "" /\ name_part \notin FieldLabels
                        /\ Len(name_part) < 50
       THEN <<name_part>> ELSE None

(* the lookahead over the next two lines *)
RECURSIVE NextLineName(_, _, _)
NextLineName(ls, idx, last) ==
    IF idx > last \/ idx > Len(ls) THEN None
    ELSE LET next_line == Strip(ls[idx])
         IN IF /\ next_line # << >>
               /\ Text(next_line) \notin NotAName
               /\ ~StartsWith(next_line, "S/N:")
               /\ ~StartsWith(next_line, "CLT-")
            THEN <<Text(next_line)>>
            ELSE NextLineName(ls, idx + 1, last)

ResolvedName(ls, n) ==
    IF SameLineName(ls[n]) # None THEN SameLineName(ls[n])
    ELSE NextLineName(ls, n + 1, n + 2)

(* location_temperatures[name] = {'mins': [], 'maxs': []} *)
Fresh(name) == [name |-> name, mins |-> << >>, maxs |-> << >>]

StartLists(lt, name) ==
    IF \E i \in 1..Len(lt) : lt[i].name = name
    THEN [i \in 1..Len(lt) |-> IF lt[i].name = name THEN Fresh(name) ELSE lt[i]]
    ELSE Append(lt, Fresh(name))

(* the appends to the running lists of `name` for the accepted pairs *)
AppendPairs(lt, name, pairs) ==
    [i \in 1..Len(lt) |->
        IF lt[i].name = name
        THEN [lt[i] EXCEPT !.mins = @ \o [j \in 1..Len(pairs) |-> pairs[j][1]],
                           !.maxs = @ \o [j \in 1..Len(pairs) |-> pairs[j][2]]]
        ELSE lt[i]]

Scanning == phase = "scan" /\ line_num <= Len(lines)

Advance == line_num' = line_num + 1

(* `if line.startswith('Location Details')` *)
ScanHeader ==
    /\ Scanning
    /\ StartsWith(Line, "Location Details")
    /\ in_recordings_section' = FALSE
    /\ current_location' = None
    /\ Advance
    /\ UNCHANGED <<report, lines, location_temperatures, temperatures, phase, regVars, concVars, storeVars, schedVars, parseVars>>

(* `if line.startswith('Name') and not current_location` *)
ScanName ==
    /\ Scanning
    /\ ~StartsWith(Line, "Location Details")
    /\ StartsWith(Line, "Name") /\ current_location = None
    /\ LET location_name == ResolvedName(lines, line_num)
       IN IF location_name # None
          THEN /\ current_location' = location_name
               /\ location_temperatures' = StartLists(location_temperatures, location_name[1])
          ELSE UNCHANGED <<current_location, location_temperatures>>
    /\ Advance
    /\ UNCHANGED <<report, lines, in_recordings_section, temperatures, phase, regVars, concVars, storeVars, schedVars, parseVars>>

(* `if line == 'Recordings' and current_location` *)
ScanRecordings ==
    /\ Scanning
    /\ ~StartsWith(Line, "Location Details")
    /\ ~(StartsWith(Line, "Name") /\ current_location = None)
    /\ Line = <<Word("Recordings")>> /\ current_location # None
    /\ in_recordings_section' = TRUE
    /\ Advance
    /\ UNCHANGED <<report, lines, current_location, location_temperatures, temperatures,
                   phase, regVars, concVars, storeVars, schedVars, parseVars>>

(* any other line: `if in_recordings_section and current_location` the pairs
   found on it are checked and appended *)
(* ScanRow_anywhere is the row branch without the `in_recordings_section` test *)
ScanRow_anywhere ==
    /\ Scanning
    /\ ~StartsWith(Line, "Location Details")
    /\ ~(StartsWith(Line, "Name") /\ current_location = None)
    /\ Line # << >>
    /\ ~(Line = <<Word("Recordings")>> /\ current_location # None)
    /\ IF current_location # None
       THEN location_temperatures' =
                AppendPairs(location_temperatures, current_location[1],
                            Accepted(FindAll(Line, 1)))
       ELSE UNCHANGED location_temperatures
    /\ Advance
    /\ UNCHANGED <<report, lines, current_location, in_recordings_section, temperatures,
                   phase, regVars, concVars, storeVars, schedVars, parseVars>>

ScanRow ==
    /\ Scanning
    /\ ~StartsWith(Line, "Location Details")
    /\ ~(StartsWith(Line, "Name") /\ current_location = None)
    /\ Line # << >>
    /\ ~(Line = <<Word("Recordings")>> /\ current_location # None)
    /\ IF in_recordings_section /\ current_location # None
       THEN location_temperatures' =
                AppendPairs(location_temperatures, current_location[1],
                            Accepted(FindAll(Line, 1)))
       ELSE UNCHANGED location_temperatures
    /\ Advance
    /\ UNCHANGED <<report, lines, current_location, in_recordings_section, temperatures,
                   phase, regVars, concVars, storeVars, schedVars, parseVars>>

(* min() and max() of a non-empty list *)
ListMin(list) == CHOOSE x \in {list[i] : i \in 1..Len(list)} :
                    \A i \in 1..Len(list) : x <= list[i]

ListMax(list) == CHOOSE x \in {list[i] : i \in 1..Len(list)} :
                    \A i \in 1..Len(list) : x >= list[i]

(* "Calculate absolute min/max for each location": the two readings of a
   location that has mins and maxs; t1 and t2 are what the two datetime.now()
   calls return *)
Samples(temp_data, t1, t2) ==
    IF temp_data.mins # << >> /\ temp_data.maxs # << >>
    THEN << [value |-> ListMin(temp_data.mins), unit |-> "C", type |-> "minimum",
             location |-> temp_data.name, timestamp |-> t1,
             reading_count |-> Len(temp_data.mins)],
            [value |-> ListMax(temp_data.maxs), unit |-> "C", type |-> "maximum",
             location |-> temp_data.name, timestamp |-> t2,
             reading_count |-> Len(temp_data.maxs)] >>
    ELSE << >>

(* the samples of all locations in dict order; stamps[2i-1], stamps[2i] are
   the clock readings available to the i-th location *)
RECURSIVE AllSamples(_, _)
AllSamples(lt, stamps) ==
    IF lt = << >> THEN << >>
    ELSE Samples(Head(lt), stamps[1], stamps[2]) \o AllSamples(Tail(lt), Tail(Tail(stamps)))

(* k successive readings of a clock that stands at t *)
Stamps(t, k) ==
    { s \in [1..k -> ClockFrom(t)] : \A i \in 1..k : \A j \in i..k : s[i] <= s[j] }

(* the loop is over: the samples are computed and returned *)
Summarize ==
    /\ phase = "scan" /\ line_num > Len(lines)
    /\ \E stamps \in Stamps(now, 2 * Len(location_temperatures)) :
          /\ temperatures' = AllSamples(location_temperatures, stamps)
          /\ now' = IF stamps = << >> THEN now ELSE stamps[Len(stamps)]
    /\ phase' = "done"
    /\ UNCHANGED <<report, lines, line_num, current_location, in_recordings_section,
                   location_temperatures, discovered_locations, call, ret, concVars, storeVars, schedVars, parseVars>>

(* a parse of the text of any report *)
TempInit ==
    /\ RegIdle /\ ConcIdle /\ StoreIdle /\ SchedIdle /\ ParseIdle
    /\ report \in Reports
    /\ lines = Render(report)
    /\ line_num = 1
    /\ current_location = None
    /\ in_recordings_section = FALSE
    /\ location_temperatures = << >>
    /\ temperatures = << >>
    /\ phase = "scan"

TempNext == ScanHeader \/ ScanName \/ ScanRecordings \/ ScanRow \/ Summarize

SpecTemp == TempInit /\ [][TempNext]_vars

----------------------------------------------------------------------------
(* Vocabulary of the recordings claims *)

(* the readings of a block that lie within -50..100 degrees C, both values *)
Plausible(readings) ==
    SelectSeq(readings, LAMBDA p : /\ p[1] >= -500 /\ p[1] <= 1000
                                   /\ p[2] >= -500 /\ p[2] <= 1000)

Firsts(pairs) == [i \in 1..Len(pairs) |-> pairs[i][1]]
Seconds(pairs) == [i \in 1..Len(pairs) |-> pairs[i][2]]

Least(list) == CHOOSE x \in {list[i] : i \in 1..Len(list)} : \A i \in 1..Len(list) : x <= list[i]
Greatest(list) == CHOOSE x \in {list[i] : i \in 1..Len(list)} : \A i \in 1..Len(list) : x >= list[i]

(* the blocks whose location has one recordings region in the report *)
SingleRegion(b) == Cardinality({ i \in 1..Len(report) : report[i].name = report[b].name }) = 1

HasSample(name, type, value, count) ==
    \E i \in 1..Len(temperatures) :
        /\ temperatures[i].location = name /\ temperatures[i].type = type
        /\ temperatures[i].value = value /\ temperatures[i].reading_count = count

(* the running lists of a location hold exactly the pairs P, and when P is
   not empty the samples are its least minimum and greatest maximum, each
   counted |P| *)
RegionResultOk(b) ==
    LET P == Plausible(report[b].readings)
        name == report[b].name
    IN /\ \E i \in 1..Len(location_temperatures) :
             /\ location_temperatures[i].name = name
             /\ location_temperatures[i].mins = Firsts(P)
             /\ location_temperatures[i].maxs = Seconds(P)
       /\ P # << >> =>
             /\ HasSample(name, "minimum", Least(Firsts(P)), Len(P))
             /\ HasSample(name, "maximum", Greatest(Seconds(P)), Len(P))

(* C10 as stated: for every recordings region, with P its pairs whose two
   values, negative ones included, lie within -50..100, the running lists
   are P (an implausible pair is in neither list) and the samples are the
   least minimum and the greatest maximum of P, counted |P|. *)
C10_PlausiblePairsDecide ==
    phase = "done" => \A b \in 1..Len(report) : SingleRegion(b) => RegionResultOk(b)

(* C10 where it does hold: regions all of whose recorded values are
   non-negative (the sign is not part of the pattern the rows are read with) *)
C10_NonNegativeRegions ==
    phase = "done" =>
        \A b \in 1..Len(report) :
            (/\ SingleRegion(b)
             /\ \A i \in 1..Len(report[b].readings) :
                   report[b].readings[i][1] >= 0 /\ report[b].readings[i][2] >= 0)
              => RegionResultOk(b)

----------------------------------------------------------------------------
(* Part 3: two threads inside the registry.                                *)
(*                                                                          *)
(* LocationManager holds no lock, so two calls interleave statement by      *)
(* statement.  The dict maps a key to a reference; a thread that has looked *)
(* an object up keeps its reference when another thread deletes the key.    *)

MaxRounds == 2

Threads == {1, 2}

(* the calls the two threads make *)
ConcCalls ==
    { [op |-> "register", info |-> i] : i \in { j \in LocationInfos : j.confidence # "medium" } }
    \cup { [op |-> "merge", source_key |-> a, target_key |-> b] : a \in Names, b \in Names }
    \cup { [op |-> "mark", location_key |-> k, config |-> c] :
             k \in Names, c \in { x \in Configs : x.has # {} } }

(* the keys a call touches *)
Touched(c) ==
    CASE c.op = "register" -> {c.info.name}
      [] c.op = "merge" -> {c.source_key, c.target_key}
      [] c.op = "mark" -> {c.location_key}

TableHas(k) == \E i \in 1..Len(table) : table[i].key = k

RefOf(k) == table[CHOOSE i \in 1..Len(table) : table[i].key = k].ref

(* the registry as the dict of objects it is *)
RegView == [i \in 1..Len(table) |-> Item(table[i].key, objects[table[i].ref])]

(* the first statement of each method *)
EntryPc(c) ==
    CASE c.op = "register" -> "reg_check"
      [] c.op = "merge" -> "mrg_check"
      [] c.op = "mark" -> "mrk_check"

(* two threads enter the registry with calls that touch a common key *)
BeginPair ==
    /\ \A t \in Threads : threads[t].pc = "idle"
    /\ rounds < MaxRounds
    /\ \E c1 \in ConcCalls, c2 \in ConcCalls :
          /\ Touched(c1) \cap Touched(c2) # {}
          /\ threads' = [t \in Threads |->
                           [IdleThread EXCEPT !.call = IF t = 1 THEN c1 ELSE c2,
                                              !.pc = EntryPc(IF t = 1 THEN c1 ELSE c2)]]
    /\ before' = RegView
    /\ raised' = {}
    /\ rounds' = rounds + 1
    /\ UNCHANGED <<objects, table, regVars, tempVars, parseVars, storeVars, schedVars>>

(* both calls have returned *)
EndPair ==
    /\ \A t \in Threads : threads[t].pc = "done"
    /\ threads' = [t \in Threads |-> IdleThread]
    /\ UNCHANGED <<objects, table, before, raised, rounds, regVars, tempVars, parseVars, storeVars, schedVars>>

Goto(t, pc) == threads' = [threads EXCEPT ![t].pc = pc]

(* a KeyError leaves the method *)
KeyError(t) ==
    /\ raised' = raised \cup {t}
    /\ Goto(t, "done")
    /\ UNCHANGED <<objects, table>>

(* what a statement of a thread leaves alone *)
StepFrame == UNCHANGED <<before, rounds, regVars, tempVars, parseVars, storeVars, schedVars>>

(* `if location_name in self.discovered_locations` *)
RegCheck(t) ==
    /\ threads[t].pc = "reg_check"
    /\ StepFrame
    /\ Goto(t, IF TableHas(threads[t].call.info.name) THEN "reg_get" ELSE "reg_new")
    /\ UNCHANGED <<objects, table, raised>>

(* existing_location = self.discovered_locations[location_name] *)
RegGet(t) ==
    /\ threads[t].pc = "reg_get"
    /\ StepFrame
    /\ IF TableHas(threads[t].call.info.name)
       THEN /\ threads' = [threads EXCEPT ![t].tgt = RefOf(threads[t].call.info.name),
                                          ![t].pc = "reg_seen"]
            /\ UNCHANGED <<objects, table, raised>>
       ELSE KeyError(t)

(* existing_location.last_seen = datetime.now().isoformat() *)
RegSeen(t) ==
    /\ threads[t].pc = "reg_seen"
    /\ StepFrame
    /\ objects' = [objects EXCEPT ![threads[t].tgt].last_seen = now]
    /\ Goto(t, "reg_load")
    /\ UNCHANGED <<table, raised>>

(* existing_location.source_count += 1, the read *)
RegLoad(t) ==
    /\ threads[t].pc = "reg_load"
    /\ StepFrame
    /\ threads' = [threads EXCEPT ![t].tmp = objects[threads[t].tgt].source_count,
                                  ![t].pc = "reg_store"]
    /\ UNCHANGED <<objects, table, raised>>

(* existing_location.source_count += 1, the write *)
RegStore(t) ==
    /\ threads[t].pc = "reg_store"
    /\ StepFrame
    /\ objects' = [objects EXCEPT ![threads[t].tgt].source_count = threads[t].tmp + 1]
    /\ Goto(t, "reg_conf")
    /\ UNCHANGED <<table, raised>>

(* "Update confidence if better" *)
RegConf(t) ==
    /\ threads[t].pc = "reg_conf"
    /\ StepFrame
    /\ objects' = [objects EXCEPT ![threads[t].tgt].confidence =
                      BetterConfidence(@, threads[t].call.info.confidence)]
    /\ Goto(t, "done")
    /\ UNCHANGED <<table, raised>>

(* new_location = LocationInfo(...) *)
RegNew(t) ==
    /\ threads[t].pc = "reg_new"
    /\ StepFrame
    /\ LET info == threads[t].call.info
       IN objects' = Append(objects,
                        LocationInfo(info.name, info.confidence, FALSE, info.type,
                                     info.min_temp, info.max_temp, None, 1, now, now))
    /\ threads' = [threads EXCEPT ![t].tgt = Len(objects) + 1, ![t].pc = "reg_put"]
    /\ UNCHANGED <<table, raised>>

(* self.discovered_locations[location_name] = new_location *)
RegPut(t) ==
    /\ threads[t].pc = "reg_put"
    /\ StepFrame
    /\ LET k == threads[t].call.info.name
       IN table' = IF TableHas(k)
                   THEN [i \in 1..Len(table) |->
                           IF table[i].key = k THEN [key |-> k, ref |-> threads[t].tgt]
                           ELSE table[i]]
                   ELSE Append(table, [key |-> k, ref |-> threads[t].tgt])
    /\ Goto(t, "done")
    /\ UNCHANGED <<objects, raised>>

(* `if source_key not in ... or target_key not in ...: return False` *)
MrgCheck(t) ==
    /\ threads[t].pc = "mrg_check"
    /\ StepFrame
    /\ Goto(t, IF TableHas(threads[t].call.source_key) /\ TableHas(threads[t].call.target_key)
               THEN "mrg_get" ELSE "done")
    /\ UNCHANGED <<objects, table, raised>>

(* source_location = ...[source_key]; target_location = ...[target_key] *)
MrgGet(t) ==
    /\ threads[t].pc = "mrg_get"
    /\ StepFrame
    /\ IF TableHas(threads[t].call.source_key) /\ TableHas(threads[t].call.target_key)
       THEN /\ threads' = [threads EXCEPT ![t].src = RefOf(threads[t].call.source_key),
                                          ![t].tgt = RefOf(threads[t].call.target_key),
                                          ![t].pc = "mrg_load"]
            /\ UNCHANGED <<objects, table, raised>>
       ELSE KeyError(t)

(* target_location.source_count += source_location.source_count, the reads *)
MrgLoad(t) ==
    /\ threads[t].pc = "mrg_load"
    /\ StepFrame
    /\ threads' = [threads EXCEPT ![t].tmp = objects[threads[t].tgt].source_count
                                               + objects[threads[t].src].source_count,
                                  ![t].pc = "mrg_store"]
    /\ UNCHANGED <<objects, table, raised>>

(* ... the write, then last_seen and the confidence *)
MrgStore(t) ==
    /\ threads[t].pc = "mrg_store"
    /\ StepFrame
    /\ objects' = [objects EXCEPT
                     ![threads[t].tgt] =
                        [@ EXCEPT !.source_count = threads[t].tmp,
                                  !.last_seen = MaxTs(objects[threads[t].src].last_seen, @),
                                  !.confidence =
                                      BetterConfidence(@, objects[threads[t].src].confidence)]]
    /\ Goto(t, "mrg_del")
    /\ UNCHANGED <<table, raised>>

(* del self.discovered_locations[source_key] *)
MrgDel(t) ==
    /\ threads[t].pc = "mrg_del"
    /\ StepFrame
    /\ IF TableHas(threads[t].call.source_key)
       THEN /\ table' = SelectSeq(table, LAMBDA e : e.key # threads[t].call.source_key)
            /\ Goto(t, "done")
            /\ UNCHANGED <<objects, raised>>
       ELSE KeyError(t)

(* `if location_key in self.discovered_locations` *)
MrkCheck(t) ==
    /\ threads[t].pc = "mrk_check"
    /\ StepFrame
    /\ Goto(t, IF TableHas(threads[t].call.location_key) THEN "mrk_get" ELSE "done")
    /\ UNCHANGED <<objects, table, raised>>

(* location = self.discovered_locations[location_key] *)
MrkGet(t) ==
    /\ threads[t].pc = "mrk_get"
    /\ StepFrame
    /\ IF TableHas(threads[t].call.location_key)
       THEN /\ threads' = [threads EXCEPT ![t].tgt = RefOf(threads[t].call.location_key),
                                          ![t].pc = "mrk_set"]
            /\ UNCHANGED <<objects, table, raised>>
       ELSE KeyError(t)

(* location.configured = True and the three overrides *)
MrkSet(t) ==
    /\ threads[t].pc = "mrk_set"
    /\ StepFrame
    /\ LET config == threads[t].call.config
       IN objects' = [objects EXCEPT
                        ![threads[t].tgt] =
                           [@ EXCEPT !.configured = TRUE,
                                     !.location_type = ConfigGet(config, "type", @),
                                     !.min_temp = ConfigGet(config, "min_temp", @),
                                     !.max_temp = ConfigGet(config, "max_temp", @)]]
    /\ Goto(t, "done")
    /\ UNCHANGED <<table, raised>>

(* one statement of one thread *)
Step(t) ==
    \/ RegCheck(t) \/ RegGet(t) \/ RegSeen(t) \/ RegLoad(t) \/ RegStore(t)
    \/ RegConf(t) \/ RegNew(t) \/ RegPut(t)
    \/ MrgCheck(t) \/ MrgGet(t) \/ MrgLoad(t) \/ MrgStore(t) \/ MrgDel(t)
    \/ MrkCheck(t) \/ MrkGet(t) \/ MrkSet(t)

ConcInit == RegIdle /\ TempIdle /\ ConcIdle /\ StoreIdle /\ SchedIdle /\ ParseIdle

ConcNext == BeginPair \/ EndPair \/ \E t \in Threads : Step(t)

SpecConc == ConcInit /\ [][ConcNext]_vars

(* the registry after call c runs alone on registry d *)
Alone(d, c) ==
    CASE c.op = "register" -> register_discovered_location(d, c.info, now, now).reg
      [] c.op = "merge" -> merge_locations_by_user_choice(d, c.source_key, c.target_key).reg
      [] c.op = "mark" -> mark_location_configured(d, c.location_key, c.config).reg

(* the registries the two calls can leave when one runs after the other *)
SerialOutcomes ==
    { Alone(Alone(before, threads[1].call), threads[2].call),
      Alone(Alone(before, threads[2].call), threads[1].call) }

(* C8: when two concurrent mutators that touch a common key have both
   returned, neither has raised and the registry is one that running the two
   calls one after the other, in some order, produces. *)
C8_MutatorsSerializable ==
    (\A t \in Threads : threads[t].pc = "done")
        => (raised = {} /\ RegView \in SerialOutcomes)

----------------------------------------------------------------------------
(* Part 4: PDFTemperatureParser._extract_locations                         *)
(*                                                                          *)
(* The text of a report: every location block is one page of the PDF.  The  *)
(* layout of a block says how the logger laid out its header lines.         *)

Blank == << >>

NameLabel == <<Word("Name")>>

(* the lines between the 'Location Details' header and the recordings *)
HeaderLines(block) ==
    LET n == <<Word(block.name)>>
        named == <<Word("Name"), Sp, Word(block.name)>>
        terminator == <<Word("Temperature")>>
        low == <<Word("Low Temperature")>>
        high == <<Word("High Temperature")>>
        alarm(v) == <<Word("Alarm Threshold"), Sp>> \o Fmt(v)
    IN CASE block.layout = "same" -> <<named, terminator>>
         [] block.layout = "full" ->
              <<named, <<Word("Description")>>, <<Word("Main store")>>,
                <<Word("Device S/N:"), Sp, Num(1234)>>,
                low, alarm(20), high, alarm(80), terminator>>
         [] block.layout = "inline" ->
              <<named, low \o <<Sp>> \o alarm(20), high \o <<Sp>> \o alarm(80), terminator>>
         [] block.layout = "next" -> <<NameLabel, n, terminator>>
         [] block.layout = "blank" -> <<NameLabel, Blank, n, terminator>>
         [] block.layout = "blanks" -> <<NameLabel, Blank, Blank, n, terminator>>
         [] block.layout = "desc" -> <<NameLabel, <<Word("Description")>>, n, terminator>>
         [] block.layout = "interval" -> <<NameLabel, <<Word("Log Interval")>>, n, terminator>>
         [] block.layout = "serial" ->
              <<<<Word("Name"), Sp, Word("CLT-"), Num(1234)>>, n, terminator>>
         [] block.layout = "late" -> <<terminator, named, terminator>>
         [] block.layout = "open" -> <<named>>
         [] block.layout = "range" ->
              <<named, terminator, <<Word("Range"), Sp>> \o Fmt(20) \o <<Sp>> \o Fmt(80)>>

Layouts == {"same", "full", "inline", "next", "blank", "blanks", "desc", "interval",
            "serial", "late", "open"}

(* page.extract_text() of the page that carries the block *)
PageText(block) ==
    << <<Word("Location Details")>> >> \o HeaderLines(block) \o << <<Word("Recordings")>> >>
    \o [i \in 1..Len(block.readings) |-> RecordingRow(block.readings[i])]

(* text_content += f"\n--- PAGE {page_num + 1} ---\n"; text_content += page_text + "\n",
   on the '\n'-separated lines of text_content (its last line is empty) *)
PageMarker(page_num) ==
    <<Minus, Minus, Minus, Sp, Word("PAGE"), Sp, Num(page_num), Sp, Minus, Minus, Minus>>

AppendPage(text, page_num, page_text) ==
    text \o <<PageMarker(page_num)>> \o page_text \o <<Blank>>

(* the text after the first k pages of the report were appended to `text` *)
RECURSIVE AppendPages(_, _, _)
AppendPages(text, pages, k) ==
    IF k = 0 THEN text
    ELSE AppendPage(AppendPages(text, pages, k - 1), k, PageText(pages[k]))

(* text_content = "" *)
EmptyText == <<Blank>>

LocBlocks == { [name |-> n, layout |-> l, readings |-> << >>] : n \in LocationNames, l \in Layouts }

LocReports == UNION { [1..c -> LocBlocks] : c \in BlockCounts }

----------------------------------------------------------------------------
(* the name on the 'Name' line, the lookahead, and the other fields *)

SameLineStop == {"Description", "Device", "Device Model", "Log Interval", "View Location"}

MaxNameLen == 50

(* the same-line case left out: every name is looked for on the next lines *)
LocSameLineName_none(line) == None

(* line[4:].strip() accepted as the name (lines 157-166) *)
LocSameLineName(line) ==
    LET name_part == Strip(Tail(line))
    IN IF /\ Len(line) > 1
          /\ name_part # << >>
          /\ Text(name_part) \notin SameLineStop
          /\ ~StartsWith(name_part, "S/N:")
          /\ ~StartsWith(name_part, "CLT-")
          /\ Len(Text(name_part)) < MaxNameLen
       THEN <<Text(name_part)>> ELSE None

(* the lookahead over lines idx..last (lines 169-184) *)
RECURSIVE LocNextLineName(_, _, _)
LocNextLineName(ls, idx, last) ==
    IF idx > last \/ idx > Len(ls) THEN None
    ELSE LET next_line == Strip(ls[idx])
         IN IF /\ next_line # << >>
               /\ Text(next_line) \notin NotAName
               /\ ~StartsWith(next_line, "S/N:")
               /\ ~StartsWith(next_line, "CLT-")
               /\ ~StartsWith(next_line, "Device S/N:")
               /\ Len(Text(next_line)) < MaxNameLen
            THEN <<Text(next_line)>>
            ELSE IF Text(next_line) \in FieldLabels THEN None
            ELSE LocNextLineName(ls, idx + 1, last)

(* range(line_num + 1, min(line_num + 3, len(lines))) *)
Lookahead == 2

LocResolvedName(ls, n) ==
    IF LocSameLineName(Strip(ls[n])) # None THEN LocSameLineName(Strip(ls[n]))
    ELSE LocNextLineName(ls, n + 1, n + Lookahead)

(* the description on the line after 'Description' (lines 189-192) *)
DescriptionAfter(ls, n) ==
    IF n + 1 <= Len(ls) /\ Strip(ls[n + 1]) # << >>
          /\ Text(Strip(ls[n + 1])) \notin {"Device", "Device Model"}
    THEN <<Text(Strip(ls[n + 1]))>> ELSE None

(* \s* from position i: the position after the blanks *)
RECURSIVE SkipBlanks(_, _)
SkipBlanks(line, i) == IF IsTok(line, i, " ") THEN SkipBlanks(line, i + 1) ELSE i

(* re.search(r'Device S/N:\s*(\d+)', line).group(1), None without a match *)
RECURSIVE DeviceSN(_, _)
DeviceSN(line, i) ==
    IF i > Len(line) THEN None
    ELSE IF IsTok(line, i, "Device S/N:") /\ IsTok(line, SkipBlanks(line, i + 1), "num")
         THEN <<ToString(line[SkipBlanks(line, i + 1)].v)>>
         ELSE DeviceSN(line, i + 1)

\* the pattern (\d+\.?\d*)\s*°C at position i: float() of the group in
\* tenths, None without a match there
ThresholdAt(line, i) ==
    IF ~IsTok(line, i, "num") THEN None
    ELSE IF /\ IsTok(line, i + 1, ".") /\ IsTok(line, i + 2, "num")
            /\ IsTok(line, SkipBlanks(line, i + 3), "°C")
         THEN <<Float(line[i], line[i + 2])>>
    ELSE IF IsTok(line, i + 1, ".") /\ IsTok(line, SkipBlanks(line, i + 2), "°C")
         THEN <<10 * line[i].v>>
    ELSE IF IsTok(line, SkipBlanks(line, i + 1), "°C")
         THEN <<10 * line[i].v>>
    ELSE None

\* re.search(r'(\d+\.?\d*)\s*°C', line): the leftmost match
RECURSIVE Threshold(_, _)
Threshold(line, i) ==
    IF i > Len(line) THEN None
    ELSE IF ThresholdAt(line, i) # None THEN ThresholdAt(line, i)
    ELSE Threshold(line, i + 1)

(* `text in line` for a text that is one token of the line *)
Contains(line, text) == \E i \in 1..Len(line) : line[i].k = text

(* `text in ' '.join(lines[max(0, line_num-2):line_num+1])` *)
ContextWindow == 2

InContext(ls, n, text) ==
    \E i \in 1..Len(ls) : i >= n - ContextWindow /\ i <= n /\ Contains(ls[i], text)

----------------------------------------------------------------------------
(* The line loop of _extract_locations, one action per line *)

(* current_location_info = {}: a key the dict does not hold is None here *)
EmptyInfo ==
    [name |-> None, description |-> None, device_sn |-> None,
     min_temp_threshold |-> None, max_temp_threshold |-> None]

(* an unfinished block kept when the next header arrives *)
StartBlock_keep(info) == IF info = None THEN <<EmptyInfo>> ELSE info

(* `if line == 'Location Details': current_location_info = {}` *)
StartBlock(info) == <<EmptyInfo>>

(* the location_info dict appended at the end of a block (lines 222-231) *)
LocationBlock(info) ==
    [name |-> info.name[1],
     raw_name |-> info.name[1],
     description |-> IF info.description = None THEN "" ELSE info.description[1],
     device_sn |-> info.device_sn,
     device_model |-> None,
     log_interval |-> None,
     min_temp_threshold |-> info.min_temp_threshold,
     max_temp_threshold |-> info.max_temp_threshold]

IsOpen(info) == info # None

(* the branch of the if/elif chain (lines 153-216) taken by line n while a
   block is open *)
Branch(info, ls, n) ==
    LET line == Strip(ls[n])
    IN IF StartsWith(line, "Name") /\ info[1].name = None THEN "name"
       ELSE IF StartsWith(line, "Description") THEN "description"
       ELSE IF StartsWith(line, "Device S/N:") THEN "device_sn"
       ELSE IF Contains(line, "Alarm Threshold") /\ InContext(ls, n, "Low Temperature")
            THEN "low"
       ELSE IF Contains(line, "Alarm Threshold") /\ InContext(ls, n, "High Temperature")
            THEN "high"
       ELSE IF line = <<Word("Temperature")>> /\ info[1].name # None THEN "temperature"
       ELSE "none"

Locating == phase = "locations" /\ line_num <= Len(lines)

(* a line inside an open block that takes branch b *)
InBlock(b) ==
    /\ Locating
    /\ Strip(Line) # << >>
    /\ Strip(Line) # <<Word("Location Details")>>
    /\ IsOpen(current_location_info)
    /\ Branch(current_location_info, lines, line_num) = b

LocFrame ==
    UNCHANGED <<report, lines, current_location, in_recordings_section,
                location_temperatures, temperatures, phase, regVars, concVars, storeVars, schedVars,
                backend, backend_calls, text_content, exc, result, first_result, run>>

(* the field `key` of the open block becomes `value` when there is one *)
SetField(info, key, value) ==
    IF value = None THEN info ELSE <<[info[1] EXCEPT ![key] = value]>>

(* `if not line: continue` *)
LocBlank ==
    /\ Locating
    /\ Strip(Line) = << >>
    /\ Advance
    /\ UNCHANGED <<current_location_info, locations_found>>
    /\ LocFrame

(* `if line == 'Location Details'` *)
LocHeader ==
    /\ Locating
    /\ Strip(Line) = <<Word("Location Details")>>
    /\ current_location_info' = StartBlock(current_location_info)
    /\ Advance
    /\ UNCHANGED locations_found
    /\ LocFrame

(* `if line.startswith('Name') and 'name' not in current_location_info` *)
LocName ==
    /\ InBlock("name")
    /\ current_location_info' =
          SetField(current_location_info, "name", LocResolvedName(lines, line_num))
    /\ Advance
    /\ UNCHANGED locations_found
    /\ LocFrame

(* `elif line.startswith('Description')` *)
LocDescription ==
    /\ InBlock("description")
    /\ current_location_info' =
          SetField(current_location_info, "description", DescriptionAfter(lines, line_num))
    /\ Advance
    /\ UNCHANGED locations_found
    /\ LocFrame

(* `elif line.startswith('Device S/N:')` *)
LocDeviceSN ==
    /\ InBlock("device_sn")
    /\ current_location_info' =
          SetField(current_location_info, "device_sn", DeviceSN(Strip(Line), 1))
    /\ Advance
    /\ UNCHANGED locations_found
    /\ LocFrame

(* `elif 'Alarm Threshold' in line and 'Low Temperature' in ...` *)
LocAlarmLow ==
    /\ InBlock("low")
    /\ current_location_info' =
          SetField(current_location_info, "min_temp_threshold", Threshold(Strip(Line), 1))
    /\ Advance
    /\ UNCHANGED locations_found
    /\ LocFrame

(* `elif 'Alarm Threshold' in line and 'High Temperature' in ...` *)
LocAlarmHigh ==
    /\ InBlock("high")
    /\ current_location_info' =
          SetField(current_location_info, "max_temp_threshold", Threshold(Strip(Line), 1))
    /\ Advance
    /\ UNCHANGED locations_found
    /\ LocFrame

(* `elif line == 'Temperature' and 'name' in current_location_info` *)
LocTemperature ==
    /\ InBlock("temperature")
    /\ locations_found' = Append(locations_found, LocationBlock(current_location_info[1]))
    /\ current_location_info' = None
    /\ Advance
    /\ LocFrame

(* a line outside any block, or one that no branch takes *)
LocSkip ==
    /\ Locating
    /\ Strip(Line) # << >>
    /\ Strip(Line) # <<Word("Location Details")>>
    /\ IsOpen(current_location_info) => Branch(current_location_info, lines, line_num) = "none"
    /\ Advance
    /\ UNCHANGED <<current_location_info, locations_found>>
    /\ LocFrame

(* `return locations_found`; parse_pdf_data goes on with
   _extract_temperatures, whose locals start empty (lines 245-249) *)
LocReturn ==
    /\ phase = "locations" /\ line_num > Len(lines)
    /\ phase' = "scan"
    /\ line_num' = 1
    /\ current_location' = None
    /\ in_recordings_section' = FALSE
    /\ location_temperatures' = << >>
    /\ temperatures' = << >>
    /\ UNCHANGED <<report, lines, regVars, concVars, storeVars, schedVars, parseVars>>

LocStep ==
    \/ LocBlank
    \/ LocHeader
    \/ LocName
    \/ LocDescription
    \/ LocDeviceSN
    \/ LocAlarmLow
    \/ LocAlarmHigh
    \/ LocTemperature
    \/ LocSkip

(* _extract_locations on the text of any report *)
LocInit ==
    /\ RegIdle /\ ConcIdle /\ StoreIdle /\ SchedIdle
    /\ report \in LocReports
    /\ lines = AppendPages(EmptyText, report, Len(report))
    /\ line_num = 1
    /\ current_location = None
    /\ in_recordings_section = FALSE
    /\ location_temperatures = << >>
    /\ temperatures = << >>
    /\ phase = "locations"
    /\ backend = << >>
    /\ backend_calls = << >>
    /\ text_content = lines
    /\ current_location_info = None
    /\ locations_found = << >>
    /\ exc = None
    /\ result = None
    /\ first_result = None
    /\ run = 1

LocNext == LocStep \/ LocReturn

SpecLoc == LocInit /\ [][LocNext]_vars

----------------------------------------------------------------------------
(* Vocabulary of the block-scan claims *)

(* the stripped text line under the scan *)
Here == Strip(lines[line_num])

HeaderLine == <<Word("Location Details")>>
TerminatorLine == <<Word("Temperature")>>

(* the scan stands on a line of an open block *)
InOpenBlock == phase = "locations" /\ line_num <= Len(lines) /\ current_location_info # None

Info == current_location_info[1]

(* _extract_locations has returned *)
Located == phase = "scan" /\ line_num = 1

(* a field label, or a serial/device token *)
LabelTexts == {"Description", "Device", "Device Model", "Log Interval", "View Location"}

IsLabel(line) == line # << >> /\ Text(line) \in LabelTexts

IsSerial(line) ==
    line # << >> /\ line[1].k \in {"S/N:", "CLT-", "Device S/N:"}

(* what follows the label on a 'Name' line *)
SameLineContent(line) == Strip(Tail(line))

AcceptableSameLine(line) ==
    /\ SameLineContent(line) # << >>
    /\ ~IsLabel(SameLineContent(line))
    /\ ~IsSerial(SameLineContent(line))
    /\ Len(Text(SameLineContent(line))) < 50

(* the scan stands on the 'Name' line of an open block without a name *)
OnNameLine == InOpenBlock /\ Info.name = None /\ Here # << >> /\ Here[1].k = "Name"

(* a LocationBlock whose only resolved field is the name *)
OnlyName(name) ==
    [name |-> name, raw_name |-> name, description |-> "", device_sn |-> None,
     device_model |-> None, log_interval |-> None,
     min_temp_threshold |-> None, max_temp_threshold |-> None]

AllLayout(l) == \A b \in 1..Len(report) : report[b].layout = l

(* C12: a 'Name' line of an open block whose same-line content is no field
   label, no serial/device token and shorter than 50 characters makes that
   content the block's name at once; no later line of the block changes a
   resolved name; and a report whose blocks are a header, such a Name line
   and the terminator yields one LocationBlock per block with only the name
   resolved. *)
C12_SameLineName ==
    /\ [](Located /\ AllLayout("same") =>
            locations_found = [b \in 1..Len(report) |-> OnlyName(report[b].name)])
    /\ [][/\ (OnNameLine /\ AcceptableSameLine(Here)) =>
                current_location_info' =
                    <<[Info EXCEPT !.name = <<Text(SameLineContent(Here))>>]>>
          /\ (InOpenBlock /\ Info.name # None /\ current_location_info' # None
                 /\ Here # HeaderLine) =>
                current_location_info'[1].name = Info.name]_vars

(* a one-block report "Location Details / Name <n> / Temperature" has been
   scanned and gave its block *)
C12_Witness ==
    /\ Located /\ Len(report) = 1 /\ report[1].layout = "same"
    /\ locations_found = <<OnlyName(report[1].name)>>

(* C13: when the 'Name' line has no acceptable same-line content, the line
   taken as the name is not positioned after a field-label line or a
   device-serial line: between the 'Name' line and the accepted line there is
   no such line. *)
C13_LookaheadStopsAtFieldLabel ==
    [][(OnNameLine /\ ~AcceptableSameLine(Here) /\ current_location_info'[1].name # None) =>
          \E j \in (line_num + 1)..Len(lines) :
              /\ current_location_info'[1].name = <<Text(Strip(lines[j]))>>
              /\ \A i \in (line_num + 1)..(j - 1) :
                    ~IsLabel(Strip(lines[i])) /\ ~IsSerial(Strip(lines[i]))]_vars

(* C14: a block whose 'Temperature' terminator is reached before a name was
   resolved is discarded: a report all of whose blocks are
   "Location Details / Temperature / Name <n> / Temperature" yields no
   LocationBlock. *)
C14_NamelessBlockDiscarded ==
    (Located /\ AllLayout("late")) => locations_found = << >>

(* the 'Location Details' lines among the first n lines *)
HeadersUpTo(n) == Cardinality({ i \in 1..n : i <= Len(lines) /\ Strip(lines[i]) = HeaderLine })

(* C18: a block is emitted only at a 'Temperature' line of an open block with
   a resolved name, from the fields of that block, and closes the
   accumulator; a closed accumulator opens only at a header; a header opens
   an empty accumulator and emits nothing, so nothing of an unfinished block
   reaches a later one; there are never more blocks than headers scanned. *)
C18_OneBlockPerHeader ==
    /\ [](phase = "locations" => Len(locations_found) <= HeadersUpTo(line_num - 1))
    /\ [](Located /\ Len(report) = 2 /\ report[1].layout = "open" /\ report[2].layout = "same"
             => locations_found = <<OnlyName(report[2].name)>>)
    /\ [][/\ locations_found' # locations_found =>
                /\ InOpenBlock /\ Here = TerminatorLine /\ Info.name # None
                /\ Len(locations_found') = Len(locations_found) + 1
                /\ SubSeq(locations_found', 1, Len(locations_found)) = locations_found
                /\ LET e == locations_found'[Len(locations_found')]
                   IN /\ e.name = Info.name[1]
                      /\ e.device_sn = Info.device_sn
                      /\ e.min_temp_threshold = Info.min_temp_threshold
                      /\ e.max_temp_threshold = Info.max_temp_threshold
                /\ current_location_info' = None
          /\ (current_location_info = None /\ current_location_info' # None) =>
                (phase = "locations" /\ line_num <= Len(lines) /\ Here = HeaderLine)
          /\ (phase = "locations" /\ line_num <= Len(lines) /\ Here = HeaderLine) =>
                /\ current_location_info' =
                      <<[name |-> None, description |-> None, device_sn |-> None,
                         min_temp_threshold |-> None, max_temp_threshold |-> None]>>
                /\ locations_found' = locations_found]_vars

(* a block with a header and a name but no terminator, then a complete block
   of another location: only the second is emitted *)
C18_Witness ==
    /\ Located /\ Len(report) = 2
    /\ report[1].layout = "open" /\ report[2].layout = "same"
    /\ report[1].name # report[2].name
    /\ Len(locations_found) = 1 /\ locations_found[1].name = report[2].name

(* the first k non-empty lines from position i on *)
RECURSIVE NonEmptyFrom(_, _)
NonEmptyFrom(i, k) ==
    IF k = 0 \/ i > Len(lines) THEN << >>
    ELSE IF Strip(lines[i]) = << >> THEN NonEmptyFrom(i + 1, k)
    ELSE <<Strip(lines[i])>> \o NonEmptyFrom(i + 1, k - 1)

(* the lines of `cands` before its first field-label or serial line *)
RECURSIVE Candidates(_)
Candidates(cands) ==
    IF cands = << >> \/ IsLabel(Head(cands)) \/ IsSerial(Head(cands)) THEN << >>
    ELSE <<Head(cands)>> \o Candidates(Tail(cands))

(* C19: when the 'Name' line has no acceptable same-line content, the first
   non-empty line after it becomes the name when it is neither a field label
   nor a serial/device token (a line behind a field boundary is no
   candidate), however many blank lines lie in between. *)
C19_FirstNonEmptyCandidate ==
    [][(OnNameLine /\ ~AcceptableSameLine(Here)
           /\ Candidates(NonEmptyFrom(line_num + 1, 2)) # << >>) =>
          current_location_info'[1].name =
              <<Text(Head(Candidates(NonEmptyFrom(line_num + 1, 2))))>>]_vars

(* the scan stands on an 'Alarm Threshold' line of an open block that
   carries a value; `text` occurs on the line or on one of the 2 lines before *)
OnAlarmLine ==
    /\ InOpenBlock
    /\ \E i \in 1..Len(Here) : Here[i].k = "Alarm Threshold"
    /\ Threshold(Here, 1) # None

Nearby(text) ==
    \E i \in 1..Len(lines) :
        /\ i >= line_num - 2 /\ i <= line_num
        /\ \E j \in 1..Len(lines[i]) : lines[i][j].k = text

(* C20: an 'Alarm Threshold' line sets max_threshold when 'High Temperature'
   is on it or on the 2 lines before, and min_threshold when
   'Low Temperature' is there and 'High Temperature' is not; the value of a
   line that itself says 'High Temperature' never becomes or replaces
   min_threshold. *)
C20_ThresholdAttribution ==
    [][OnAlarmLine =>
          /\ Nearby("High Temperature") =>
                current_location_info'[1].max_temp_threshold = Threshold(Here, 1)
          /\ (Nearby("Low Temperature") /\ ~Nearby("High Temperature")) =>
                current_location_info'[1].min_temp_threshold = Threshold(Here, 1)
          /\ (\E j \in 1..Len(Here) : Here[j].k = "High Temperature") =>
                current_location_info'[1].min_temp_threshold = Info.min_temp_threshold]_vars

----------------------------------------------------------------------------
(* Part 5: PDFTemperatureParser.parse_pdf_data                             *)
(*                                                                          *)
(* phase is the position inside the call:                                   *)
(*   "extract"    _extract_text_from_pdf entered, PyPDF2 not yet tried      *)
(*   "fallback"   PyPDF2 raised, pdfplumber not yet tried                   *)
(*   "extracted"  _extract_text_from_pdf returned text_content              *)
(*   "locations"  in the line loop of _extract_locations                    *)
(*   "scan"       in the line loop of _extract_temperatures                 *)
(*   "done"       _extract_temperatures returned                            *)
(*   "except"     an exception propagates to the handler of line 73         *)
(*   "returned"   parse_pdf_data returned                                   *)

(* the readings of a page: none, one row, a row whose second value is the
   lower one, or two rows *)
ParseReadings == { << >>, << <<39, 48>> >>, << <<50, 39>> >>, << <<39, 48>>, <<40, 50>> >> }

ParseLayouts == {"full", "desc", "range"}

(* every table under the full header; one row under the other headers *)
ParseBlocks ==
    { b \in [name : LocationNames, layout : ParseLayouts, readings : ParseReadings] :
        b.layout = "full" \/ b.readings = << <<39, 48>> >> }

PageCounts == {0, 1, 2}

ParseReports == UNION { [1..c -> ParseBlocks] : c \in PageCounts }

(* how the libraries fare on a PDF of n pages: no library installed; PyPDF2
   reads it; PyPDF2 raises after `primary_pages` pages and pdfplumber reads
   it or raises as well *)
Backends(n) ==
    { [available |-> FALSE, primary_ok |-> FALSE, primary_pages |-> 0, secondary_ok |-> FALSE],
      [available |-> TRUE, primary_ok |-> TRUE, primary_pages |-> n, secondary_ok |-> TRUE] }
    \cup { [available |-> TRUE, primary_ok |-> FALSE, primary_pages |-> k, secondary_ok |-> ok] :
             k \in { j \in 0..n : j = 0 \/ j < n }, ok \in BOOLEAN }

filename == "report.pdf"

(* _empty_result(error) *)
empty_result_success(error) ==
    [locations |-> << >>, temperatures |-> << >>, daily_summary |-> None,
     source |-> "unknown", text_length |-> 0, success |-> TRUE, error |-> error]

empty_result(error) ==
    [locations |-> << >>, temperatures |-> << >>, daily_summary |-> None,
     source |-> "unknown", text_length |-> 0, success |-> FALSE, error |-> error]

(* len(text_content): the characters of the lines and the '\n' between them *)
RECURSIVE TextLength(_)
TextLength(text) ==
    IF text = << >> THEN 0
    ELSE Len(Text(Head(text))) + (IF Len(text) > 1 THEN 1 ELSE 0) + TextLength(Tail(text))

(* text_content.strip() is empty *)
NoText(text) == \A i \in 1..Len(text) : Strip(text[i]) = << >>

(* _create_daily_summary: one step of "Group by location" without the
   `if location not in by_location` test *)
AddSample_split(by_location, temp) ==
    Append(by_location,
           IF temp.type = "minimum"
           THEN [Fresh(temp.location) EXCEPT !.mins = <<temp.value>>]
           ELSE [Fresh(temp.location) EXCEPT !.maxs = <<temp.value>>])

(* _create_daily_summary: one step of "Group by location" (lines 370-378) *)
AddSample(by_location, temp) ==
    LET known == \E i \in 1..Len(by_location) : by_location[i].name = temp.location
        grown == IF known THEN by_location ELSE Append(by_location, Fresh(temp.location))
    IN [i \in 1..Len(grown) |->
           IF grown[i].name # temp.location THEN grown[i]
           ELSE IF temp.type = "minimum" THEN [grown[i] EXCEPT !.mins = Append(@, temp.value)]
           ELSE IF temp.type = "maximum" THEN [grown[i] EXCEPT !.maxs = Append(@, temp.value)]
           ELSE grown[i]]

RECURSIVE GroupByLocation(_, _)
GroupByLocation(by_location, temps) ==
    IF temps = << >> THEN by_location
    ELSE GroupByLocation(AddSample(by_location, Head(temps)), Tail(temps))

(* summary['locations'] (lines 387-395) *)
SummaryLocations(by_location) ==
    LET complete == SelectSeq(by_location, LAMBDA d : d.mins # << >> /\ d.maxs # << >>)
    IN [i \in 1..Len(complete) |->
           [location |-> complete[i].name,
            min_temp |-> ListMin(complete[i].mins),
            max_temp |-> ListMax(complete[i].maxs),
            readings_count |-> Len(complete[i].mins)]]

(* datetime.now().date(): the clock ticks twice a day *)
Date(t) == t \div 2

(* _create_daily_summary(temperatures, filename), the clock standing at t *)
create_daily_summary(temps, source, t) ==
    IF temps = << >> THEN None
    ELSE LET locs == SummaryLocations(GroupByLocation(<< >>, temps))
         IN IF locs = << >> THEN None
            ELSE <<[date |-> Date(t), source |-> source, locations |-> locs]>>

ParseFrame == UNCHANGED <<report, discovered_locations, call, ret, concVars, storeVars, schedVars, backend, first_result, run>>

ScanLocals == <<lines, line_num, current_location, in_recordings_section,
                location_temperatures, temperatures>>

(* `if not PDF_AVAILABLE: raise Exception(...)` *)
ExtractUnavailable ==
    /\ phase = "extract"
    /\ ~backend.available
    /\ exc' = <<"No PDF processing library available">>
    /\ phase' = "except"
    /\ UNCHANGED <<now, ScanLocals, backend_calls, text_content, current_location_info,
                   locations_found, result>>
    /\ ParseFrame

(* "Try PyPDF2 first": the pages read before it raises stay in text_content *)
ExtractPrimary ==
    /\ phase = "extract"
    /\ backend.available
    /\ backend_calls' = Append(backend_calls, "PyPDF2")
    /\ text_content' = AppendPages(EmptyText, report, backend.primary_pages)
    /\ phase' = IF backend.primary_ok THEN "extracted" ELSE "fallback"
    /\ UNCHANGED <<now, ScanLocals, current_location_info, locations_found, exc, result>>
    /\ ParseFrame

(* "Try pdfplumber as fallback": its pages are appended to text_content, or
   it raises and _extract_text_from_pdf raises "PDF parsing failed" *)
ExtractSecondary ==
    /\ phase = "fallback"
    /\ backend_calls' = Append(backend_calls, "pdfplumber")
    /\ IF backend.secondary_ok
       THEN /\ text_content' = AppendPages(text_content, report, Len(report))
            /\ phase' = "extracted"
            /\ UNCHANGED exc
       ELSE /\ exc' = <<"PDF parsing failed">>
            /\ phase' = "except"
            /\ UNCHANGED text_content
    /\ UNCHANGED <<now, ScanLocals, current_location_info, locations_found, result>>
    /\ ParseFrame

(* `if not text_content.strip(): return self._empty_result()` *)
ParseNoText ==
    /\ phase = "extracted"
    /\ NoText(text_content)
    /\ result' = <<empty_result(None)>>
    /\ phase' = "returned"
    /\ UNCHANGED <<now, ScanLocals, backend_calls, text_content, current_location_info,
                   locations_found, exc>>
    /\ ParseFrame

(* `locations = self._extract_locations(text_content)`: the call and its
   first statements (lines 134-136) *)
ParseText ==
    /\ phase = "extracted"
    /\ ~NoText(text_content)
    /\ lines' = text_content
    /\ line_num' = 1
    /\ current_location_info' = None
    /\ locations_found' = << >>
    /\ phase' = "locations"
    /\ UNCHANGED <<now, current_location, in_recordings_section, location_temperatures,
                   temperatures, backend_calls, text_content, exc, result>>
    /\ ParseFrame

(* _extract_temperatures: `if not line: continue` *)
ScanBlank ==
    /\ Scanning
    /\ Strip(Line) = << >>
    /\ Advance
    /\ UNCHANGED <<report, lines, current_location, in_recordings_section,
                   location_temperatures, temperatures, phase, regVars, concVars, storeVars, schedVars, parseVars>>

(* `daily_summary = self._create_daily_summary(temperatures, filename)`, the
   result dict and `return result` (lines 59-71) *)
ParseReturn ==
    /\ phase = "done"
    /\ \E t \in ClockFrom(now) :
          /\ now' = t
          /\ result' = <<[locations |-> locations_found,
                          temperatures |-> temperatures,
                          daily_summary |-> create_daily_summary(temperatures, filename, t),
                          source |-> filename,
                          text_length |-> TextLength(text_content),
                          success |-> TRUE,
                          error |-> None]>>
    /\ phase' = "returned"
    /\ UNCHANGED <<ScanLocals, backend_calls, text_content, current_location_info,
                   locations_found, exc>>
    /\ ParseFrame

(* `except Exception as e: return self._empty_result(error=str(e))` *)
ParseExcept ==
    /\ phase = "except"
    /\ result' = <<empty_result(exc)>>
    /\ exc' = None
    /\ phase' = "returned"
    /\ UNCHANGED <<now, ScanLocals, backend_calls, text_content, current_location_info,
                   locations_found>>
    /\ ParseFrame

(* the caller parses the same bytes a second time *)
Rerun ==
    /\ phase = "returned"
    /\ run = 1
    /\ run' = 2
    /\ first_result' = result
    /\ result' = None
    /\ backend_calls' = << >>
    /\ text_content' = << >>
    /\ current_location_info' = None
    /\ locations_found' = << >>
    /\ lines' = << >>
    /\ line_num' = 1
    /\ current_location' = None
    /\ in_recordings_section' = FALSE
    /\ location_temperatures' = << >>
    /\ temperatures' = << >>
    /\ phase' = "extract"
    /\ UNCHANGED <<report, regVars, concVars, storeVars, schedVars, backend, exc>>

ParseInit ==
    /\ RegIdle /\ ConcIdle /\ StoreIdle /\ SchedIdle
    /\ report \in ParseReports
    /\ backend \in Backends(Len(report))
    /\ lines = << >>
    /\ line_num = 1
    /\ current_location = None
    /\ in_recordings_section = FALSE
    /\ location_temperatures = << >>
    /\ temperatures = << >>
    /\ phase = "extract"
    /\ backend_calls = << >>
    /\ text_content = << >>
    /\ current_location_info = None
    /\ locations_found = << >>
    /\ exc = None
    /\ result = None
    /\ first_result = None
    /\ run = 1

ParseNext ==
    \/ ExtractUnavailable
    \/ ExtractPrimary
    \/ ExtractSecondary
    \/ ParseNoText
    \/ ParseText
    \/ LocStep
    \/ LocReturn
    \/ ScanBlank
    \/ TempNext
    \/ ParseReturn
    \/ ParseExcept
    \/ Rerun

SpecParse == ParseInit /\ [][ParseNext]_vars

----------------------------------------------------------------------------
(* Vocabulary of the parse-result claims *)

(* parse_pdf_data has returned `Result` *)
Returned == phase = "returned" /\ result # None

Result == result[1]

(* the locations the result speaks of *)
SummaryEntries(r) == IF r.daily_summary = None THEN << >> ELSE r.daily_summary[1].locations

Mentioned(r) ==
    { r.temperatures[i].location : i \in 1..Len(r.temperatures) }
    \cup { SummaryEntries(r)[i].location : i \in 1..Len(SummaryEntries(r)) }
    \cup { location_temperatures[i].name : i \in 1..Len(location_temperatures) }
    \cup LocationNames

SamplesOf(r, name, type) ==
    Cardinality({ i \in 1..Len(r.temperatures) :
                    r.temperatures[i].location = name /\ r.temperatures[i].type = type })

EntriesOf(r, name) ==
    Cardinality({ i \in 1..Len(SummaryEntries(r)) : SummaryEntries(r)[i].location = name })

(* the location has a minimum and a maximum reading *)
HasReadings(name) ==
    \E i \in 1..Len(location_temperatures) :
        /\ location_temperatures[i].name = name
        /\ location_temperatures[i].mins # << >>
        /\ location_temperatures[i].maxs # << >>

(* C11: in every parse result a location that has a minimum and a maximum
   reading has exactly one minimum sample, one maximum sample and one
   daily-summary entry, every other location has no sample and no summary
   entry, and daily_summary is null exactly when no location contributes. *)
C11_PartialDataAbsent ==
    Returned =>
        /\ \A name \in Mentioned(Result) :
              IF Result.success /\ HasReadings(name)
              THEN /\ SamplesOf(Result, name, "minimum") = 1
                   /\ SamplesOf(Result, name, "maximum") = 1
                   /\ EntriesOf(Result, name) = 1
              ELSE /\ SamplesOf(Result, name, "minimum") = 0
                   /\ SamplesOf(Result, name, "maximum") = 0
                   /\ EntriesOf(Result, name) = 0
        /\ Len(Result.temperatures) = 2 * Len(SummaryEntries(Result))
        /\ (Result.daily_summary = None) <=> (Result.temperatures = << >>)

(* a two-page report was parsed: one location has a reading, the other none *)
C11_Witness ==
    /\ Returned /\ Result.success
    /\ \E a \in LocationNames, b \in LocationNames :
          /\ HasReadings(a) /\ EntriesOf(Result, a) = 1
          /\ ~HasReadings(b) /\ EntriesOf(Result, b) = 0
          /\ \E i \in 1..Len(location_temperatures) : location_temperatures[i].name = b

(* C15: two runs of parse_pdf_data on the same bytes return equal locations
   lists and equal temperatures lists, every field of every entry included,
   whatever the clock shows during each run. *)
C15_Deterministic ==
    (Returned /\ run = 2) =>
        /\ Result.locations = first_result[1].locations
        /\ Result.temperatures = first_result[1].temperatures

(* both text backends were tried and both raised *)
BothFailed == backend.available /\ ~backend.primary_ok /\ ~backend.secondary_ok

(* C16: parse_pdf_data never raises: an exception only exists on its way to
   the handler and the call ends with a result; pdfplumber is invoked only
   after PyPDF2 was invoked and failed, and at most once; when both fail the
   result is success=false, no locations, no temperatures, no daily summary
   and an error text, and no backend is tried again. *)
C16_NeverRaises ==
    /\ exc # None => phase = "except"
    /\ phase = "returned" => result # None
    /\ backend_calls \in { << >>, <<"PyPDF2">>, <<"PyPDF2", "pdfplumber">> }
    /\ Len(backend_calls) = 2 => ~backend.primary_ok
    /\ (Returned /\ BothFailed) =>
          /\ backend_calls = <<"PyPDF2", "pdfplumber">>
          /\ Result.success = FALSE
          /\ Result.locations = << >>
          /\ Result.temperatures = << >>
          /\ Result.daily_summary = None
          /\ Result.error # None

(* both backends raised on a report that has a page, and the call returned *)
C16_Witness ==
    /\ Returned /\ BothFailed /\ Len(report) > 0
    /\ Result.error = <<"PDF parsing failed">>

(* C17: in every successful result the location of every temperature sample
   and of every daily-summary entry is the name of a LocationBlock of the
   same result. *)
C17_SamplesNameBlocks ==
    (Returned /\ Result.success) =>
        LET names == { Result.locations[i].name : i \in 1..Len(Result.locations) }
        IN /\ \A i \in 1..Len(Result.temperatures) : Result.temperatures[i].location \in names
           /\ \A i \in 1..Len(SummaryEntries(Result)) :
                 SummaryEntries(Result)[i].location \in names

----------------------------------------------------------------------------
(* Vocabulary of the later recordings claims *)

(* a step of the line loop of _extract_temperatures *)
ScanStep == phase = "scan" /\ phase' = "scan" /\ line_num' = line_num + 1 /\ lines' = lines

(* the index of the last 'Location Details' line among lines 1..n, or 0 *)
RECURSIVE LastHeader(_, _)
LastHeader(ls, n) ==
    IF n = 0 THEN 0
    ELSE IF StartsWith(ls[n], "Location Details") THEN n
    ELSE LastHeader(ls, n - 1)

(* name is resolved at a Name line k and a 'Recordings' line r follows it,
   both after the last header before line n and before line n *)
OwnRecordings(ls, n, name) ==
    \E k, r \in (LastHeader(ls, n) + 1)..(n - 1) :
        /\ k < r
        /\ StartsWith(ls[k], "Name") /\ ResolvedName(ls, k) = <<name>>
        /\ ls[r] = <<Word("Recordings")>>

(* the names whose lists hold more readings after this step *)
Fed ==
    { location_temperatures'[i].name : i \in
        { j \in 1..Len(location_temperatures') :
            /\ j <= Len(location_temperatures)
            /\ Len(location_temperatures'[j].mins) > Len(location_temperatures[j].mins) } }

(* C21: in the recordings scan in_recordings is true only while a current
   location is set; it becomes true only at a line that is exactly
   'Recordings' and is seen with a current location; a 'Location Details'
   header resets both it and the current location; a reading pair is appended
   only to the lists of the location named under the most recent header, and
   only on a line after that block's own 'Recordings' line. *)
C21_RecordingsGate ==
    /\ [](phase = "scan" => (in_recordings_section => current_location # None))
    /\ [][ ScanStep =>
            /\ (~in_recordings_section /\ in_recordings_section')
                  => (Line = <<Word("Recordings")>> /\ current_location # None)
            /\ StartsWith(Line, "Location Details")
                  => (~in_recordings_section' /\ current_location' = None)
            /\ \A name \in Fed :
                  /\ in_recordings_section /\ current_location = <<name>>
                  /\ OwnRecordings(lines, line_num, name)
          ]_vars

(* a pair on a line between the header and 'Recordings' of the second block
   was passed over, the first block's rows are in its lists, and the second
   block's row has been appended to its own lists *)
C21_Witness ==
    /\ phase = "scan" /\ line_num > Len(lines)
    /\ Len(report) = 2
    /\ report[1].name # report[2].name
    /\ report[1].layout = "full" /\ Len(report[1].readings) = 2
    /\ report[2].layout = "range"
    /\ Len(location_temperatures) = 2
    /\ Len(location_temperatures[1].mins) = 2
    /\ location_temperatures[2].mins = <<39>>
    /\ location_temperatures[2].maxs = <<48>>

(* list `a` is the beginning of list `b` *)
Prefix(a, b) == Len(a) <= Len(b) /\ SubSeq(b, 1, Len(a)) = a

(* C26: readings accumulated for a location are never discarded during the
   scan: in every step of the line loop every location keeps its entry, and
   its min-list and max-list keep the readings they hold, also when the same
   name appears again under a later 'Location Details' header. *)
C26_ReadingsKept ==
    [][ ScanStep =>
            /\ Len(location_temperatures) <= Len(location_temperatures')
            /\ \A j \in 1..Len(location_temperatures) :
                  /\ location_temperatures'[j].name = location_temperatures[j].name
                  /\ Prefix(location_temperatures[j].mins, location_temperatures'[j].mins)
                  /\ Prefix(location_temperatures[j].maxs, location_temperatures'[j].maxs)
      ]_vars

(* the values of the samples of `type` the result holds for `name` *)
SampleValues(r, name, type) ==
    { r.temperatures[i].value : i \in
        { j \in 1..Len(r.temperatures) :
            r.temperatures[j].location = name /\ r.temperatures[j].type = type } }

(* C27: in every parse result every daily-summary entry has
   min_temp <= max_temp, and for every location the minimum sample's value is
   not greater than the maximum sample's value, whatever the order of the two
   values inside a reading pair. *)
C27_MinNotAboveMax ==
    Returned =>
        /\ \A i \in 1..Len(SummaryEntries(Result)) :
              SummaryEntries(Result)[i].min_temp <= SummaryEntries(Result)[i].max_temp
        /\ \A name \in Mentioned(Result) :
              \A lo \in SampleValues(Result, name, "minimum") :
                 \A hi \in SampleValues(Result, name, "maximum") : lo <= hi

(* the reading_count carried by the samples the result holds for `name` *)
SampleCounts(r, name) ==
    { r.temperatures[i].reading_count : i \in
        { j \in 1..Len(r.temperatures) : r.temperatures[j].location = name } }

(* C28: in every parse result the readings_count of a daily-summary entry is
   the number of plausible reading pairs folded into that location's minimum
   and maximum, which is the reading_count of the location's two samples. *)
C28_ReadingsCount ==
    Returned =>
        \A i \in 1..Len(SummaryEntries(Result)) :
            LET entry == SummaryEntries(Result)[i]
            IN /\ SampleCounts(Result, entry.location) = {entry.readings_count}
               /\ \A j \in 1..Len(location_temperatures) :
                     location_temperatures[j].name = entry.location
                        => entry.readings_count = Len(location_temperatures[j].mins)

(* the text that holds each page of the report once, in page order *)
EveryPageOnce == AppendPages(EmptyText, report, Len(report))

(* C29: the text _extract_text_from_pdf returns holds each page's text
   exactly once, in page order, whichever backend produced it, also when the
   primary backend failed after it had appended some pages. *)
C29_EachPageOnce ==
    phase = "extracted" => text_content = EveryPageOnce

----------------------------------------------------------------------------
(* Part 6: get_potential_matches over registries of up to MaxKeys keys     *)

MaxKeys == 4

(* the keys of the registries: names that differ in a suffix or in case *)
MatchNames == {"Fridge A", "Fridge A1", "fridge a1", "Fridge A2", "Fridge A3"}

(* the registries in which each key of `keys` was observed once *)
Registry(keys) ==
    [i \in 1..Len(keys) |->
        Item(keys[i], LocationInfo(keys[i], "medium", FALSE, "custom", None, None, None, 1, 0, 0))]

MatchRegistries ==
    { Registry(keys) : keys \in
        { q \in SeqsUpTo(MatchNames, MaxKeys) : \A i, j \in 1..Len(q) : i # j => q[i] # q[j] } }

MatchInit ==
    /\ discovered_locations \in MatchRegistries
    /\ now = 0 /\ call = [op |-> "init"] /\ ret = NoRet
    /\ TempIdle /\ ConcIdle /\ StoreIdle /\ SchedIdle /\ ParseIdle

SpecMatch == MatchInit /\ [][GetPotentialMatches]_vars

(* the similarity of a key to the name asked about *)
Similarity(location_name, key) == WRatio(Lower(location_name), Lower(key))

InBand(location_name, key, threshold) ==
    /\ Similarity(location_name, key) >= threshold
    /\ Similarity(location_name, key) < NearExact

(* what the list of potential matches must be for registry d *)
PotentialMatchesOk(d, location_name, threshold, list) ==
    LET returned == { list[i].key : i \in 1..Len(list) }
    IN /\ Len(list) <= MatchLimit
       /\ \A i, j \in 1..Len(list) : i # j => list[i].key # list[j].key
       /\ \A i \in 1..Len(list) :
             /\ list[i].key \in Keys(d)
             /\ InBand(location_name, list[i].key, threshold)
             /\ list[i].similarity = Similarity(location_name, list[i].key)
       /\ \A k \in Keys(d) \ returned :
             InBand(location_name, k, threshold) =>
                Cardinality({ r \in returned :
                    Similarity(location_name, r) >= Similarity(location_name, k) }) = MatchLimit

(* C22: get_potential_matches(name, threshold) returns exactly the (at most
   3) highest-similarity existing keys among those with
   threshold <= similarity < 95, each key at most once: every returned key is
   in the band, and a key in the band is omitted only when 3 other in-band
   keys with at least its similarity are returned. *)
C22_BestInBand ==
    [][ call'.op = "potential" =>
          PotentialMatchesOk(discovered_locations, call'.location_name,
                             DefaultPotentialThreshold, ret'.list) ]_vars

----------------------------------------------------------------------------
(* Part 7: the location type classifiers                                    *)
(*                                                                          *)
(* A lower-cased text is the set of its words; `term in text` is a          *)
(* substring test, so a term is found in every word that contains it.       *)

Words == {"vaccine", "insulin", "immunization", "fridge", "refrigerator", "medicine",
          "freezer", "frozen", "room", "coolroom", "pharmacy", "shelf"}

(* `term in word` for the words of the model *)
Within(term, word) == term = word \/ (term = "room" /\ word = "coolroom")

(* any(term in text for term in terms) *)
AnyTerm(terms, text) == \E term \in terms : \E word \in text : Within(term, word)

(* determine_clever_logger_location_type(location_name, description) *)
determine_clever_logger_location_type(location_name, description) ==
    LET combined == location_name \cup description
    IN IF AnyTerm({"fridge", "refrigerator", "vaccine", "medicine", "drug"}, combined)
       THEN IF AnyTerm({"vaccine", "immunization"}, combined) THEN "vaccine" ELSE "fridge"
       ELSE IF AnyTerm({"freezer", "frozen"}, combined) THEN "freezer"
       ELSE IF AnyTerm({"room", "dispensary", "pharmacy", "office", "storage"}, combined)
            THEN "room"
       ELSE "custom"

(* determine_location_type(line, location_name): each term is looked for in
   the line and in the name *)
determine_location_type(line, location_name) ==
    LET both == line \cup location_name
    IN IF AnyTerm({"fridge", "refrigerator"}, both)
       THEN IF AnyTerm({"vaccine", "insulin"}, both) THEN "vaccine" ELSE "fridge"
       ELSE IF AnyTerm({"freezer"}, both) THEN "freezer"
       ELSE IF AnyTerm({"room", "area", "zone"}, both) THEN "room"
       ELSE IF AnyTerm({"vaccine"}, both) THEN "vaccine"
       ELSE IF AnyTerm({"insulin"}, both) THEN "insulin"
       ELSE IF AnyTerm({"controlled", "schedule"}, both) THEN "controlled"
       ELSE "custom"

(* texts of at most n words *)
TextsUpTo(n) == { t \in SUBSET Words : Cardinality(t) <= n }

MaxNameWords == 2
MaxDescriptionWords == 1

(* a name and a description to classify *)
ClassifyInit ==
    /\ call \in [op : {"classify"}, location_name : TextsUpTo(MaxNameWords) \ {{}},
                  description : TextsUpTo(MaxDescriptionWords)]
    /\ discovered_locations = << >> /\ now = 0 /\ ret = NoRet
    /\ TempIdle /\ ConcIdle /\ StoreIdle /\ SchedIdle /\ ParseIdle

ClassifyFrame ==
    UNCHANGED <<discovered_locations, now, tempVars, concVars, parseVars, storeVars, schedVars>>

(* the block parser asks for the type of a name and its description *)
ClassifyCleverLogger ==
    /\ call.op = "classify"
    /\ ret' = [NoRet EXCEPT !.key =
                 determine_clever_logger_location_type(call.location_name, call.description)]
    /\ call' = [call EXCEPT !.op = "clever_logger"]
    /\ ClassifyFrame

(* the fallback extraction asks for the type of a name found on a line *)
ClassifyContext ==
    /\ call.op = "classify"
    /\ ret' = [NoRet EXCEPT !.key =
                 determine_location_type(call.description, call.location_name)]
    /\ call' = [call EXCEPT !.op = "context"]
    /\ ClassifyFrame

ClassifyNext == ClassifyCleverLogger \/ ClassifyContext

SpecClassify == ClassifyInit /\ [][ClassifyNext]_vars

(* the type by the precedence vaccine, fridge, freezer, room, custom *)
TypeByPrecedence(text) ==
    IF AnyTerm({"vaccine", "insulin"}, text) THEN "vaccine"
    ELSE IF AnyTerm({"fridge", "refrigerator"}, text) THEN "fridge"
    ELSE IF AnyTerm({"freezer", "frozen"}, text) THEN "freezer"
    ELSE IF AnyTerm({"room", "pharmacy", "dispensary", "office", "storage"}, text) THEN "room"
    ELSE "custom"

(* C23: the classifier is a total function of name + description with this
   precedence: a vaccine or insulin term gives vaccine, also next to a
   fridge/refrigerator term; otherwise a fridge/refrigerator term gives
   fridge; otherwise a freezer/frozen term gives freezer; otherwise a
   room/pharmacy/dispensary/office/storage term gives room; otherwise
   custom. *)
C23_TypePrecedence ==
    call.op \in {"clever_logger", "context"} =>
        ret.key = TypeByPrecedence(call.location_name \cup call.description)

----------------------------------------------------------------------------
(* Part 8: deduplicate_locations                                            *)

(* type_priority.get(type, 0) *)
type_priority(type) ==
    CASE type = "vaccine" -> 5
      [] type = "insulin" -> 4
      [] type = "fridge" -> 3
      [] type = "freezer" -> 3
      [] type = "room" -> 2
      [] type = "custom" -> 1
      [] OTHER -> 0

(* mutant of merge_location_info: a later threshold replaces an earlier one *)
merge_location_info_last(existing, new) ==
    [existing EXCEPT
        !.confidence = IF confidence_priority(new.confidence) > confidence_priority(@)
                       THEN new.confidence ELSE @,
        !.min_temp = IF new.min_temp # None THEN new.min_temp ELSE @,
        !.max_temp = IF new.max_temp # None THEN new.max_temp ELSE @,
        !.type = IF type_priority(new.type) > type_priority(@) THEN new.type ELSE @]

(* merge_location_info(existing, new): `existing` as the call leaves it *)
merge_location_info(existing, new) ==
    [existing EXCEPT
        !.name = IF new.confidence = "high" /\ existing.confidence # "high"
                 THEN new.name ELSE @,
        !.confidence = IF confidence_priority(new.confidence) > confidence_priority(@)
                       THEN new.confidence ELSE @,
        !.min_temp = IF new.min_temp # None /\ @ = None THEN new.min_temp ELSE @,
        !.max_temp = IF new.max_temp # None /\ @ = None THEN new.max_temp ELSE @,
        !.type = IF type_priority(new.type) > type_priority(@) THEN new.type ELSE @]

(* location_key = (location_name, location.get('source', '')) *)
location_key(location) == <<location.name, location.source>>

(* the else branch: the first entry of the same name and source takes in
   the duplicate *)
MergeIntoFirst(unique_locations, location) ==
    LET same(e) == e.name = location.name /\ e.source = location.source
    IN IF \E i \in 1..Len(unique_locations) : same(unique_locations[i])
       THEN LET first == CHOOSE i \in 1..Len(unique_locations) :
                            /\ same(unique_locations[i])
                            /\ \A j \in 1..(i - 1) : ~same(unique_locations[j])
            IN [unique_locations EXCEPT ![first] = merge_location_info(@, location)]
       ELSE unique_locations

(* the loop of deduplicate_locations over the rest of the input *)
RECURSIVE DedupLoop(_, _, _)
DedupLoop(unique_locations, seen_names, rest) ==
    IF rest = << >> THEN unique_locations
    ELSE LET location == Head(rest)
         IN IF location_key(location) \notin seen_names
            THEN DedupLoop(Append(unique_locations, location),
                           seen_names \cup {location_key(location)}, Tail(rest))
            ELSE DedupLoop(MergeIntoFirst(unique_locations, location), seen_names, Tail(rest))

(* deduplicate_locations(locations) *)
deduplicate_locations(locations) ==
    IF locations = << >> THEN locations ELSE DedupLoop(<< >>, {}, locations)

MaxLocations == 3

(* what the extraction finds: a name in a source with what was read there *)
FoundKeys == { <<"Fridge", "a.pdf">>, <<"Fridge", "b.pdf">>, <<"Freezer", "a.pdf">> }

FoundDetails ==
    { [confidence |-> "low", min_temp |-> None, max_temp |-> None, type |-> "custom"],
      [confidence |-> "high", min_temp |-> <<2>>, max_temp |-> <<8>>, type |-> "fridge"],
      [confidence |-> "medium", min_temp |-> <<3>>, max_temp |-> None, type |-> "freezer"],
      [confidence |-> "low", min_temp |-> None, max_temp |-> <<9>>, type |-> "vaccine"],
      [confidence |-> "medium", min_temp |-> None, max_temp |-> None, type |-> "room"] }

FoundLocations ==
    { [name |-> k[1], source |-> k[2]] @@ d : k \in FoundKeys, d \in FoundDetails }

DedupInit ==
    /\ call \in [op : {"locations"}, locations : SeqsUpTo(FoundLocations, MaxLocations)]
    /\ discovered_locations = << >> /\ now = 0 /\ ret = NoRet
    /\ TempIdle /\ ConcIdle /\ StoreIdle /\ SchedIdle /\ ParseIdle

(* `return self.deduplicate_locations(locations_found)` *)
Deduplicate ==
    /\ call.op = "locations"
    /\ ret' = [NoRet EXCEPT !.list = deduplicate_locations(call.locations)]
    /\ call' = [call EXCEPT !.op = "dedup"]
    /\ ClassifyFrame

(* the returned list is deduplicated once more *)
DeduplicateAgain ==
    /\ call.op = "dedup"
    /\ ret' = [NoRet EXCEPT !.list = deduplicate_locations(ret.list)]
    /\ call' = [op |-> "dedup_again", locations |-> ret.list]
    /\ ClassifyFrame

DedupNext == Deduplicate \/ DeduplicateAgain

SpecDedup == DedupInit /\ [][DedupNext]_vars

(* the (name, source) pairs of a list in first-occurrence order *)
RECURSIVE FirstOccurrences(_, _)
FirstOccurrences(locations, seen) ==
    IF locations = << >> THEN << >>
    ELSE IF location_key(Head(locations)) \in seen
         THEN FirstOccurrences(Tail(locations), seen)
         ELSE <<location_key(Head(locations))>>
                \o FirstOccurrences(Tail(locations), seen \cup {location_key(Head(locations))})

(* the entries of a list with the given name and source, in order *)
Duplicates(locations, key) == SelectSeq(locations, LAMBDA l : location_key(l) = key)

(* the first value of a field that is not null, or null *)
FirstNonNull(values) ==
    LET given == SelectSeq(values, LAMBDA v : v # None)
    IN IF given = << >> THEN None ELSE Head(given)

(* what the deduplicated list must be for the input *)
DedupOk(input, output) ==
    /\ [i \in 1..Len(output) |-> location_key(output[i])] = FirstOccurrences(input, {})
    /\ \A i \in 1..Len(output) :
          LET dups == Duplicates(input, location_key(output[i]))
          IN /\ \A j \in 1..Len(dups) :
                   /\ confidence_priority(output[i].confidence)
                         >= confidence_priority(dups[j].confidence)
                   /\ type_priority(output[i].type) >= type_priority(dups[j].type)
             /\ output[i].confidence \in { dups[j].confidence : j \in 1..Len(dups) }
             /\ output[i].type \in { dups[j].type : j \in 1..Len(dups) }
             /\ output[i].min_temp = FirstNonNull([j \in 1..Len(dups) |-> dups[j].min_temp])
             /\ output[i].max_temp = FirstNonNull([j \in 1..Len(dups) |-> dups[j].max_temp])

(* C24: deduplicate_locations returns one entry per distinct (name, source)
   pair of its input, in first-occurrence order, entries of the same name
   and different sources kept apart; each entry has the highest confidence
   among its duplicates, their first non-null min and max threshold, and
   their most specific type in the order vaccine > insulin > fridge = freezer
   > room > custom; applying it to its own result returns that result. *)
C24_DeduplicateMerges ==
    /\ call.op = "dedup" => DedupOk(call.locations, ret.list)
    /\ call.op = "dedup_again" => ret.list = call.locations

(* three finds of one name, two of them in the same source, were reduced to
   two entries; the merged one took the later find's thresholds, confidence
   and type where the first had none or lower *)
C24_Witness ==
    /\ call.op = "dedup"
    /\ Len(call.locations) = 3
    /\ call.locations[1].confidence = "low" /\ call.locations[1].min_temp = None
    /\ Len(ret.list) = 2
    /\ ret.list[1].name = ret.list[2].name
    /\ ret.list[1].source # ret.list[2].source
    /\ ret.list[1].confidence = "high" /\ ret.list[1].type = "vaccine"
    /\ ret.list[1].min_temp = <<2>> /\ ret.list[1].max_temp = <<9>>

----------------------------------------------------------------------------
(* Part 9: saving the registry and loading it into a fresh LocationManager *)
(*                                                                          *)
(* The config manager is the caller's: it keeps the mapping it is given     *)
(* and hands the same mapping back.                                         *)

(* get_discovered_locations(): key -> dict of the nine fields *)
get_discovered_locations(d) ==
    [i \in 1..Len(d) |->
        [ key |-> d[i].key, name |-> d[i].name, confidence |-> d[i].confidence,
          configured |-> d[i].configured, type |-> d[i].location_type,
          min_temp |-> d[i].min_temp, max_temp |-> d[i].max_temp,
          first_seen |-> d[i].first_seen, last_seen |-> d[i].last_seen,
          source_count |-> d[i].source_count ]]

(* the loop of load_discovered_locations over the saved items: a LocationInfo
   is built from each; stamps[i] is the clock during the i-th construction *)
load_discovered_locations(locations_data, stamps) ==
    [i \in 1..Len(locations_data) |->
        LET data == locations_data[i]
        IN Item(data.key,
                LocationInfo(data.name, data.confidence, data.configured, data.type,
                             data.min_temp, data.max_temp, <<data.first_seen>>,
                             data.source_count, stamps[i], stamps[i]))]

(* save_discovered_locations() *)
Save ==
    /\ saved' = <<get_discovered_locations(discovered_locations)>>
    /\ call' = [op |-> "save"]
    /\ ret' = NoRet
    /\ UNCHANGED <<discovered_locations, now, tempVars, concVars, parseVars, schedVars>>

(* a fresh LocationManager is constructed: __init__ calls
   load_discovered_locations() *)
Load ==
    /\ saved # None
    /\ \E stamps \in Stamps(now, Len(saved[1])) :
          /\ discovered_locations' = load_discovered_locations(saved[1], stamps)
          /\ now' = IF stamps = << >> THEN now ELSE stamps[Len(stamps)]
    /\ call' = [op |-> "load"]
    /\ ret' = NoRet
    /\ UNCHANGED <<saved, tempVars, concVars, parseVars, schedVars>>

(* observations, a flush after them, and a restart of the process *)
StoreNext == Register \/ Save \/ Load

SpecStore == RegInit /\ [][StoreNext]_vars

(* C25: loading the saved mapping into a fresh LocationManager yields the
   saved key set and, for every key, the saved name, confidence, configured,
   type, min_temp, max_temp, first_seen, last_seen and source_count; loading
   is not an observation and changes no timestamp or count. *)
C25_RoundTrip ==
    [][ call'.op = "load" => get_discovered_locations(Reg') = saved[1] ]_vars

----------------------------------------------------------------------------
(* Part 10: TemperatureScheduler                                            *)
(*                                                                          *)
(* A loop thread is "unborn", at the `while self.is_running` test ("test"), *)
(* about to call schedule.run_pending() ("pending"), in time.sleep(60)      *)
(* ("sleep"), or it has left the loop ("dead").                             *)

MaxAnnouncements == 2

ScheduleSettings == [enabled : BOOLEAN, announce_time : {"09:00", "10:00"}]

Live == { t \in 1..MaxThreads : loops[t] \in {"test", "pending", "sleep"} }

(* the scheduler's fields and the jobs of the schedule module *)
Scheduler ==
    [is_running |-> is_running, scheduler_thread |-> scheduler_thread,
     jobs |-> jobs, loops |-> loops]

(* threading.Thread(target=self._scheduler_loop, daemon=True) *)
NewThread(s) == CHOOSE t \in 1..MaxThreads :
                    s.loops[t] = "unborn" /\ \A u \in 1..(t - 1) : s.loops[u] # "unborn"

(* start_scheduler() under the settings in force *)
start_scheduler(s, settings) ==
    IF ~settings.enabled THEN s
    ELSE IF s.is_running THEN s
    ELSE [ is_running |-> TRUE,
           scheduler_thread |-> NewThread(s),
           jobs |-> <<[at |-> settings.announce_time, due |-> FALSE]>>,
           loops |-> [s.loops EXCEPT ![NewThread(s)] = "test"] ]

(* self.scheduler_thread.join(timeout=5): a thread at its loop test leaves
   the loop at once; a sleeping thread leaves it in time only if its sleep of
   60 s was about to end (in_time); a thread about to poll sleeps on *)
Joined(s, in_time) ==
    /\ s.scheduler_thread # 0
    /\ \/ s.loops[s.scheduler_thread] = "test"
       \/ s.loops[s.scheduler_thread] = "sleep" /\ in_time

(* stop_scheduler() *)
stop_scheduler(s, in_time) ==
    IF ~s.is_running THEN s
    ELSE [s EXCEPT !.is_running = FALSE,
                   !.jobs = << >>,
                   !.loops = IF Joined(s, in_time)
                             THEN [@ EXCEPT ![s.scheduler_thread] = "dead"] ELSE @]

(* a start creates a thread only while the model has one left *)
ThreadLeft(s, settings) ==
    (settings.enabled /\ ~s.is_running) => \E t \in 1..MaxThreads : s.loops[t] = "unborn"

SchedFrame == UNCHANGED <<regVars, tempVars, concVars, parseVars, storeVars>>

SetScheduler(s) ==
    /\ is_running' = s.is_running
    /\ scheduler_thread' = s.scheduler_thread
    /\ jobs' = s.jobs
    /\ loops' = s.loops

StartScheduler ==
    /\ ThreadLeft(Scheduler, scheduler_config)
    /\ SetScheduler(start_scheduler(Scheduler, scheduler_config))
    /\ UNCHANGED <<scheduler_config, announced>>
    /\ SchedFrame

StopScheduler ==
    /\ \E in_time \in BOOLEAN : SetScheduler(stop_scheduler(Scheduler, in_time))
    /\ UNCHANGED <<scheduler_config, announced>>
    /\ SchedFrame

(* update_schedule_settings(settings): "Restart scheduler if running" *)
UpdateScheduleSettings ==
    \E settings \in ScheduleSettings : \E in_time \in BOOLEAN :
        /\ scheduler_config' = settings
        /\ IF is_running
           THEN LET stopped == stop_scheduler(Scheduler, in_time)
                IN /\ ThreadLeft(stopped, settings)
                   /\ SetScheduler(start_scheduler(stopped, settings))
           ELSE UNCHANGED <<is_running, scheduler_thread, jobs, loops>>
        /\ UNCHANGED announced
        /\ SchedFrame

(* `while self.is_running` *)
LoopTest(t) ==
    /\ loops[t] = "test"
    /\ loops' = [loops EXCEPT ![t] = IF is_running THEN "pending" ELSE "dead"]
    /\ UNCHANGED <<is_running, scheduler_thread, scheduler_config, jobs, announced>>
    /\ SchedFrame

(* schedule.run_pending(): every due job is run and put off to the next day *)
LoopRunPending(t) ==
    /\ loops[t] = "pending"
    /\ announced' = announced \o [i \in 1..Len(SelectSeq(jobs, LAMBDA j : j.due)) |-> t]
    /\ jobs' = [i \in 1..Len(jobs) |-> [jobs[i] EXCEPT !.due = FALSE]]
    /\ loops' = [loops EXCEPT ![t] = "sleep"]
    /\ UNCHANGED <<is_running, scheduler_thread, scheduler_config>>
    /\ SchedFrame

(* time.sleep(60) is over *)
LoopWake(t) ==
    /\ loops[t] = "sleep"
    /\ loops' = [loops EXCEPT ![t] = "test"]
    /\ UNCHANGED <<is_running, scheduler_thread, scheduler_config, jobs, announced>>
    /\ SchedFrame

(* the announce time of the day arrives: the scheduled jobs are due *)
AnnounceTime ==
    /\ Len(announced) < MaxAnnouncements
    /\ \E i \in 1..Len(jobs) : ~jobs[i].due
    /\ jobs' = [i \in 1..Len(jobs) |-> [jobs[i] EXCEPT !.due = TRUE]]
    /\ UNCHANGED <<is_running, scheduler_thread, scheduler_config, loops, announced>>
    /\ SchedFrame

SchedNext ==
    \/ StartScheduler
    \/ StopScheduler
    \/ UpdateScheduleSettings
    \/ \E t \in 1..MaxThreads : LoopTest(t)
    \/ \E t \in 1..MaxThreads : LoopRunPending(t)
    \/ \E t \in 1..MaxThreads : LoopWake(t)
    \/ AnnounceTime

SpecSched == RegInit /\ [][SchedNext]_vars

(* C30: after any sequence of start_scheduler, stop_scheduler and
   update_schedule_settings calls at most one _scheduler_loop thread is live
   and polling: while the scheduler is running no loop thread but the one
   started last is in the loop, also after a stop whose join timed out and a
   start that followed it; and a due job is run by that thread only. *)
C30_OneLoopThread ==
    /\ [](is_running => Live \subseteq {scheduler_thread})
    /\ [][ \A i \in (Len(announced) + 1)..Len(announced') :
              announced'[i] = scheduler_thread ]_vars

====
